---- MODULE Spec2Model ----
(***************************************************************************)
(* A model of git-absorb: the hunk model (owned.rs), the commutation       *)
(* engine (commute.rs), the stack builder (stack.rs), the configuration    *)
(* accessors (config.rs) and the orchestrator run_with_repo with the tree  *)
(* rewriter (lib.rs).                                                      *)
(*                                                                         *)
(* Blobs are byte sequences, a line payload is the byte sequence of the    *)
(* line with its terminator, a tree is a function from paths to blobs, a   *)
(* commit id is the index of the commit in the object database.            *)
(***************************************************************************)
EXTENDS Integers, Sequences, FiniteSets, TLC

\* ------------------------------------------------------------------ bounds

\* Lines of the file a root commit adds (orchestrator scenarios).
FileLen == 3
\* Hunks a single diff may hold (orchestrator scenarios).
MaxHunks == 3
\* Commits on the first-parent chain of the stack-builder scenarios.
MaxChain == 3
\* Lines of a file, and of one side of a hunk, in the commutation scenarios.
MaxLen == 2

\* ------------------------------------------------------- program constants

\* config::MAX_STACK
MAX_STACK == 10
\* b'\n', the line terminator split_lines_after looks for
NL == 10

\* ------------------------------------------------------------- sequences

RECURSIVE Concat(_)
\* The concatenation of a sequence of byte sequences.
Concat(ss) == IF ss = <<>> THEN <<>> ELSE Head(ss) \o Concat(Tail(ss))

RECURSIVE SeqsUpTo(_, _)
\* All sequences over S of length at most n.
SeqsUpTo(S, n) ==
    IF n = 0 THEN { <<>> }
    ELSE LET shorter == SeqsUpTo(S, n - 1)
         IN  shorter \cup { Append(s, x) : s \in shorter, x \in S }

\* A terminated line with the one-byte payload b.
Line(b) == << b, NL >>

\* ------------------------------------------------------------- owned.rs

\* owned::Block
Block(start, lines) == [start |-> start, lines |-> lines, trailing_newline |-> TRUE]

\* owned::Hunk
Hunk(added, removed) == [added |-> added, removed |-> removed]

\* Hunk::anchors: (prev_removed, next_removed, prev_added, next_added).
HunkAnchors(h) ==
    LET removed_len == Len(h.removed.lines)
        added_len == Len(h.added.lines)
    IN  IF removed_len = 0 /\ added_len = 0 THEN << 0, 1, 0, 1 >>
        ELSE IF added_len = 0 THEN
            << h.removed.start - 1, h.removed.start + removed_len,
               h.removed.start - 1, h.removed.start >>
        ELSE IF removed_len = 0 THEN
            << h.added.start - 1, h.added.start,
               h.added.start - 1, h.added.start + added_len >>
        ELSE
            << h.removed.start - 1, h.removed.start + removed_len,
               h.added.start - 1, h.added.start + added_len >>

\* Hunk::changed_offset
changed_offset(h) == Len(h.added.lines) - Len(h.removed.lines)

\* Hunk::shift_added_block
shift_added_block(h, by) == [h EXCEPT !.added.start = @ + by]

\* A variant of shift_both_blocks that leaves the hunk where it was: C1 must
\* tell it from the original.
shift_no_block(h, by) == h

\* Hunk::shift_both_blocks
shift_both_blocks(h, by) ==
    [h EXCEPT !.removed.start = @ + by, !.added.start = @ + by]

\* ------------------------------------------------------------ commute.rs

\* commute::anchors, the private copy commute() uses.
anchors(h) ==
    LET removed_len == Len(h.removed.lines)
        added_len == Len(h.added.lines)
    IN  IF removed_len = 0 /\ added_len = 0 THEN << 0, 1, 0, 1 >>
        ELSE IF added_len = 0 THEN
            << h.removed.start - 1, h.removed.start + removed_len,
               h.removed.start - 1, h.removed.start >>
        ELSE IF removed_len = 0 THEN
            << h.added.start - 1, h.added.start,
               h.added.start - 1, h.added.start + added_len >>
        ELSE
            << h.removed.start - 1, h.removed.start + removed_len,
               h.added.start - 1, h.added.start + added_len >>

\* A variant of uniform that takes any lines for equal: C24 must tell it
\* from the original.
uniform_unchecked(s) == TRUE

\* commute::uniform: all elements equal (TRUE for the empty sequence).
uniform(s) == \A i \in 1..Len(s) : s[i] = s[1]

None == [some |-> FALSE]
Some(v) == [some |-> TRUE, val |-> v]

\* A variant of commute that moves the added side of the hunk below and
\* leaves its removed side: C23 must tell it from the original.
commute_added_only(first, second) ==
    LET first_upper == anchors(first)[3]
        first_lower == anchors(first)[4]
        second_upper == anchors(second)[1]
        second_lower == anchors(second)[2]
        swapped(first_above, above, below) ==
            LET above_change_offset ==
                    (Len(above.added.lines) - Len(above.removed.lines))
                        * (IF first_above THEN -1 ELSE 1)
                below2 == [below EXCEPT !.added.start = @ + above_change_offset]
            IN  IF first_above THEN << below2, above >> ELSE << above, below2 >>
    IN  IF first_lower <= second_upper THEN Some(swapped(TRUE, first, second))
        ELSE IF second_lower <= first_upper THEN Some(swapped(FALSE, second, first))
        ELSE IF /\ first.added.lines = <<>>
                /\ second.added.lines = <<>>
                /\ uniform(first.removed.lines \o second.removed.lines)
             THEN Some(<< second, first >>)
        ELSE IF /\ first.removed.lines = <<>>
                /\ second.removed.lines = <<>>
                /\ uniform(first.added.lines \o second.added.lines)
             THEN Some(<< second, first >>)
        ELSE None

\* A variant of commute that reads the upper anchor of second on its added
\* side: C22 must tell it from the original.
commute_added_side(first, second) ==
    LET first_upper == anchors(first)[3]
        first_lower == anchors(first)[4]
        second_upper == anchors(second)[3]
        second_lower == anchors(second)[2]
        swapped(first_above, above, below) ==
            LET above_change_offset ==
                    (Len(above.added.lines) - Len(above.removed.lines))
                        * (IF first_above THEN -1 ELSE 1)
                below2 == [below EXCEPT !.added.start = @ + above_change_offset,
                                        !.removed.start = @ + above_change_offset]
            IN  IF first_above THEN << below2, above >> ELSE << above, below2 >>
    IN  IF first_lower <= second_upper THEN Some(swapped(TRUE, first, second))
        ELSE IF second_lower <= first_upper THEN Some(swapped(FALSE, second, first))
        ELSE IF /\ first.added.lines = <<>>
                /\ second.added.lines = <<>>
                /\ uniform(first.removed.lines \o second.removed.lines)
             THEN Some(<< second, first >>)
        ELSE IF /\ first.removed.lines = <<>>
                /\ second.removed.lines = <<>>
                /\ uniform(first.added.lines \o second.added.lines)
             THEN Some(<< second, first >>)
        ELSE None

\* commute::commute. The result is None or Some(<<h2, h1>>).
commute(first, second) ==
    LET first_upper == anchors(first)[3]
        first_lower == anchors(first)[4]
        second_upper == anchors(second)[1]
        second_lower == anchors(second)[2]
        swapped(first_above, above, below) ==
            LET above_change_offset ==
                    (Len(above.added.lines) - Len(above.removed.lines))
                        * (IF first_above THEN -1 ELSE 1)
                below2 == [below EXCEPT !.added.start = @ + above_change_offset,
                                        !.removed.start = @ + above_change_offset]
            IN  IF first_above THEN << below2, above >> ELSE << above, below2 >>
    IN  IF first_lower <= second_upper THEN Some(swapped(TRUE, first, second))
        ELSE IF second_lower <= first_upper THEN Some(swapped(FALSE, second, first))
        ELSE IF /\ first.added.lines = <<>>
                /\ second.added.lines = <<>>
                /\ uniform(first.removed.lines \o second.removed.lines)
             THEN Some(<< second, first >>)
        ELSE IF /\ first.removed.lines = <<>>
                /\ second.removed.lines = <<>>
                /\ uniform(first.added.lines \o second.added.lines)
             THEN Some(<< second, first >>)
        ELSE None

RECURSIVE commute_diff_before_forward(_, _)
\* The fold without `.rev()`: `after` meets the first hunk of `before` first.
commute_diff_before_forward(after, before) ==
    IF before = <<>> THEN Some(after)
    ELSE LET next == before[1]
             r == commute(next, after)
         IN  IF r.some
             THEN commute_diff_before_forward(r.val[1], SubSeq(before, 2, Len(before)))
             ELSE None

RECURSIVE commute_diff_before(_, _)
\* commute::commute_diff_before: fold `after` backwards through `before`,
\* last hunk first.
commute_diff_before(after, before) ==
    IF before = <<>> THEN Some(after)
    ELSE LET next == before[Len(before)]
             r == commute(next, after)
         IN  IF r.some
             THEN commute_diff_before(r.val[1], SubSeq(before, 1, Len(before) - 1))
             ELSE None

\* ---------------------------------------------------- lib.rs: tree rewriter

RECURSIVE NthNewline(_, _, _)
\* The index of the n-th NL of content at or after index i, 0 if there is none
\* (memchr::Memchr::new(b'\n', content).nth(n - 1)).
NthNewline(content, i, n) ==
    IF i > Len(content) THEN 0
    ELSE IF content[i] = NL
         THEN IF n = 1 THEN i ELSE NthNewline(content, i + 1, n - 1)
         ELSE NthNewline(content, i + 1, n)

\* lib::split_lines_after: (lines 1..n, the rest). A negative n stands for the
\* usize the subtraction wrapped to, larger than any line count.
split_lines_after(content, n) ==
    LET found == IF n > 0 THEN NthNewline(content, 1, n) ELSE 0
        split_index == IF n = 0 THEN 0
                       ELSE IF found = 0 THEN Len(content) ELSE found
    IN  << SubSeq(content, 1, split_index),
           SubSeq(content, split_index + 1, Len(content)) >>

\* The blob written when the removed lines are not skipped.
apply_hunk_to_blob_unskipped(old_content, hunk) ==
    LET first_split == split_lines_after(old_content, HunkAnchors(hunk)[1])
    IN  first_split[1] \o Concat(hunk.added.lines) \o first_split[2]

\* The blob apply_hunk_to_tree writes for the blob old_content.
apply_hunk_to_blob(old_content, hunk) ==
    LET old_start == HunkAnchors(hunk)[1]
        first_split == split_lines_after(old_content, old_start)
        second_split == split_lines_after(first_split[2], Len(hunk.removed.lines))
    IN  first_split[1] \o Concat(hunk.added.lines) \o second_split[2]

\* lib::apply_hunk_to_tree: Some(tree) or None when the path has no entry.
apply_hunk_to_tree(base, hunk, path) ==
    IF path \notin DOMAIN base THEN None
    ELSE Some([base EXCEPT ![path] = apply_hunk_to_blob(base[path], hunk)])

\* A tree entry with its file mode: a blob, or a tree of named entries.
BlobEntry(mode, content) == [kind |-> "blob", mode |-> mode, content |-> content]

TreeEntry(mode, entries) == [kind |-> "tree", mode |-> mode, entries |-> entries]

RECURSIVE apply_hunk_to_tree_entries(_, _, _)
\* lib::apply_hunk_to_tree on trees whose entries carry modes and may be
\* trees; path is the sequence of the names between the slashes. None is an
\* error: no entry of that name, or an entry of the other kind.
apply_hunk_to_tree_entries(base, hunk, path) ==
    IF Len(path) > 1
    THEN LET first == path[1]
             rest == Tail(path)
         IN  IF first \notin DOMAIN base THEN None
             ELSE IF base[first].kind # "tree" THEN None
             ELSE LET result_subtree ==
                          apply_hunk_to_tree_entries(base[first].entries, hunk, rest)
                  IN  IF ~result_subtree.some THEN None
                      ELSE Some([base EXCEPT
                                    ![first] = TreeEntry(base[first].mode,
                                                         result_subtree.val)])
    ELSE IF path[1] \notin DOMAIN base THEN None
    ELSE IF base[path[1]].kind # "blob" THEN None
    ELSE Some([base EXCEPT
                  ![path[1]] = BlobEntry(base[path[1]].mode,
                                         apply_hunk_to_blob(base[path[1]].content, hunk))])

RECURSIVE LinesOf(_)
\* The lines of a blob, each with its terminator; the last one may have none.
LinesOf(content) ==
    IF content = <<>> THEN <<>>
    ELSE LET ends == { i \in 1..Len(content) : content[i] = NL }
             stop == IF ends = {} THEN Len(content)
                     ELSE CHOOSE i \in ends : \A j \in ends : i <= j
         IN  << SubSeq(content, 1, stop) >>
                \o LinesOf(SubSeq(content, stop + 1, Len(content)))

RECURSIVE CommonLines(_, _)
\* The number of lines a line diff of two files leaves unchanged: the length
\* of a longest common subsequence.
CommonLines(old, new) ==
    IF old = <<>> \/ new = <<>> THEN 0
    ELSE IF Head(old) = Head(new) THEN 1 + CommonLines(Tail(old), Tail(new))
    ELSE LET skip_old == CommonLines(Tail(old), new)
             skip_new == CommonLines(old, Tail(new))
         IN  IF skip_old >= skip_new THEN skip_old ELSE skip_new

RECURSIVE SumOver(_, _, _)
\* The sum of count[p] over the paths.
SumOver(paths, count, acc) ==
    IF paths = {} THEN acc
    ELSE LET p == CHOOSE q \in paths : TRUE
         IN  SumOver(paths \ { p }, count, acc + count[p])

\* repo.diff_tree_to_tree(old, new).stats(): the inserted and the deleted
\* lines of the line diff of the two trees.
diff_stats(old_tree, new_tree) ==
    LET paths == DOMAIN old_tree \cup DOMAIN new_tree
        lines(tree, p) == IF p \in DOMAIN tree THEN LinesOf(tree[p]) ELSE <<>>
        common == [p \in paths |-> CommonLines(lines(old_tree, p), lines(new_tree, p))]
    IN  [insertions |-> SumOver(paths, [p \in paths |->
                                    Len(lines(new_tree, p)) - common[p]], 0),
         deletions |-> SumOver(paths, [p \in paths |->
                                    Len(lines(old_tree, p)) - common[p]], 0)]

\* ---------------------------------------------------------------- state

VARIABLES
    repo,       \* the repository: objects, HEAD, references, index, workdir, config
    config,     \* the Config the command line built (main.rs)
    backend,    \* what the diff backend answers for the trees of this repository
    orig,       \* the repository as it was when the run started, and the
                \* command line (field cli)
    pc,         \* the position of run_with_repo
    walk,       \* working_stack's locals: revwalk, ret, the hidden commit
    loc,        \* run_with_repo's locals
    announced,  \* the announcements made so far, in order
    result,     \* "running", "ok" or "err": what run_with_repo returned
    pf          \* the pure-function harness: inputs and outputs of commute

vars == << repo, config, backend, orig, pc, walk, loc, announced, result, pf >>

\* ------------------------------------------------------------ config.rs

\* A variant of max_stack that takes the configured value whatever its sign:
\* C7 must tell it from the original.
max_stack_unchecked(r) ==
    IF r.gitcfg.maxStack.some THEN r.gitcfg.maxStack.val ELSE MAX_STACK

\* config::max_stack
max_stack(r) ==
    IF r.gitcfg.maxStack.some /\ r.gitcfg.maxStack.val > 0
    THEN r.gitcfg.maxStack.val
    ELSE MAX_STACK

\* config::force_author
cfg_force_author(r) ==
    IF r.gitcfg.forceAuthor.some THEN r.gitcfg.forceAuthor.val ELSE FALSE

\* config::one_fixup_per_commit
cfg_one_fixup_per_commit(r) ==
    IF r.gitcfg.oneFixupPerCommit.some THEN r.gitcfg.oneFixupPerCommit.val ELSE FALSE

\* config::auto_stage_if_nothing_staged
auto_stage_if_nothing_staged(r) ==
    IF r.gitcfg.autoStageIfNothingStaged.some
    THEN r.gitcfg.autoStageIfNothingStaged.val
    ELSE FALSE

\* A variant of unify that does not read absorb.forceAuthor: C9 must tell it
\* from the original.
unify_without_force_author(c, r) ==
    [c EXCEPT !.one_fixup_per_commit = c.one_fixup_per_commit \/ cfg_one_fixup_per_commit(r)]

\* config::unify
unify(c, r) ==
    [c EXCEPT !.one_fixup_per_commit = c.one_fixup_per_commit \/ cfg_one_fixup_per_commit(r),
              !.force_author = c.force_author \/ cfg_force_author(r)]

\* ------------------------------------------------------------- stack.rs

ReachedRoot == "ReachedRoot"
ReachedMergeCommit == "ReachedMergeCommit"
ReachedAnotherAuthor == "ReachedAnotherAuthor"
ReachedLimit == "ReachedLimit"
CommitsHiddenByBase == "CommitsHiddenByBase"
CommitsHiddenByBranches == "CommitsHiddenByBranches"

\* stack::StackEndReason
StackEndReason ==
    { ReachedRoot, ReachedMergeCommit, ReachedAnotherAuthor, ReachedLimit,
      CommitsHiddenByBase, CommitsHiddenByBranches }

\* stack::is_by_another_author
is_by_another_author(sig, commit) ==
    IF sig.some
    THEN commit.author.name # sig.val.name \/ commit.author.email # sig.val.email
    ELSE FALSE

\* Reference::is_branch on HEAD
head_is_branch(r) == r.head_name # "HEAD"

RECURSIVE AncestorsOf(_, _)
\* A commit and everything reachable from it through any parent: what
\* Revwalk::hide and Revwalk::hide_ref make uninteresting.
AncestorsOf(commits, id) ==
    {id} \cup UNION { AncestorsOf(commits, commits[id].parents[k]) :
                        k \in 1..Len(commits[id].parents) }

RECURSIVE FirstParentChain(_, _)
\* The walk push_head and simplify_first_parent set up: HEAD, its first
\* parent, and so on to a root.
FirstParentChain(commits, id) ==
    IF commits[id].parents = <<>> THEN << id >>
    ELSE << id >> \o FirstParentChain(commits, commits[id].parents[1])

\* A variant of HiddenTips that hides the other branches whether or not a base
\* is given, and never the base: C10 must tell it from the original.
HiddenTipsBranchesOnly(r, user_provided_base) ==
    { r.branches[name] : name \in { n \in DOMAIN r.branches : n # r.head_name } }

\* The commits working_stack hides: the base, or every local branch that is
\* not HEAD's.
HiddenTips(r, user_provided_base) ==
    IF user_provided_base.some THEN { user_provided_base.val }
    ELSE { r.branches[name] : name \in { n \in DOMAIN r.branches : n # r.head_name } }

\* The commits the revwalk yields, in order.
Revwalk(r, user_provided_base) ==
    LET hidden == UNION { AncestorsOf(r.commits, t) : t \in HiddenTips(r, user_provided_base) }
        shown(id) == id \notin hidden
    IN  SelectSeq(FirstParentChain(r.commits, r.head), shown)

\* ------------------------------------------------- stack.rs: working_stack

\* working_stack, lines 25-73: HEAD must be a branch unless force_detach; the
\* revwalk is set up and the base or the other local branches are hidden.
StackBegin ==
    /\ pc = "stack_begin"
    /\ IF ~head_is_branch(repo) /\ ~loc.config.force_detach
       THEN /\ result' = "err"
            /\ pc' = "done"
            /\ walk' = walk
       ELSE /\ walk' = [revwalk |-> Revwalk(repo, loc.config.base),
                        ret |-> <<>>,
                        stack_end_reason |-> None]
            /\ pc' = "stack_walk"
            /\ result' = result
    /\ UNCHANGED << repo, config, backend, orig, loc, announced, pf >>

\* A variant of VisitCandidate that checks the limit first, then the author,
\* then the parents: C8 must tell it from the original.
VisitCandidateLimitFirst(r, c, commit, ret) ==
    IF ~c.no_limit /\ Len(ret) = max_stack(r) /\ ~c.base.some THEN "limit"
    ELSE IF ~c.force_author /\ is_by_another_author(r.gitcfg.signature, commit)
         THEN "author"
    ELSE IF Len(commit.parents) > 1 THEN "merge"
    ELSE "push"

\* A variant of VisitCandidate that does not stop at a merge commit.
VisitCandidateMergePushed(r, c, commit, ret) ==
    IF ~c.force_author /\ is_by_another_author(r.gitcfg.signature, commit)
    THEN "author"
    ELSE IF ~c.no_limit /\ Len(ret) = max_stack(r) /\ ~c.base.some
         THEN "limit"
    ELSE "push"

\* What the loop body of working_stack (lines 78-101) decides for one
\* candidate: "merge", "author", "limit" or "push".
VisitCandidate(r, c, commit, ret) ==
    IF Len(commit.parents) > 1 THEN "merge"
    ELSE IF ~c.force_author /\ is_by_another_author(r.gitcfg.signature, commit)
         THEN "author"
    ELSE IF ~c.no_limit /\ Len(ret) = max_stack(r) /\ ~c.base.some
         THEN "limit"
    ELSE "push"

\* One iteration of `for rev in revwalk` (lines 78-101).
StackVisit ==
    /\ pc = "stack_walk"
    /\ walk.revwalk # <<>>
    /\ ~walk.stack_end_reason.some
    /\ LET id == Head(walk.revwalk)
           verdict == VisitCandidate(repo, loc.config, repo.commits[id], walk.ret)
       IN  CASE verdict = "merge" ->
                    \* return Ok((ret, ReachedMergeCommit))
                    /\ loc' = [loc EXCEPT !.stack = walk.ret,
                                          !.stack_end_reason = ReachedMergeCommit]
                    /\ pc' = "parse"
                    /\ walk' = walk
             [] verdict = "author" ->
                    /\ walk' = [walk EXCEPT !.stack_end_reason = Some(ReachedAnotherAuthor)]
                    /\ UNCHANGED << loc, pc >>
             [] verdict = "limit" ->
                    /\ walk' = [walk EXCEPT !.stack_end_reason = Some(ReachedLimit)]
                    /\ UNCHANGED << loc, pc >>
             [] OTHER ->
                    /\ walk' = [walk EXCEPT !.ret = Append(@, id),
                                            !.revwalk = Tail(@)]
                    /\ UNCHANGED << loc, pc >>
    /\ UNCHANGED << repo, config, backend, orig, announced, result, pf >>

\* A variant of EndReason that does not examine the hidden commit: C12 must
\* tell it from the original.
EndReasonUnexamined(r, c, head_id, ret, stack_end_reason) ==
    IF stack_end_reason.some THEN stack_end_reason.val
    ELSE IF ret # <<>> /\ r.commits[ret[Len(ret)]].parents = <<>> THEN ReachedRoot
    ELSE IF c.base.some THEN CommitsHiddenByBase
    ELSE CommitsHiddenByBranches

\* A variant of EndReason that blames the branches for every hidden commit:
\* C11 must tell it from the original.
EndReasonBranches(r, c, head_id, ret, stack_end_reason) ==
    IF stack_end_reason.some THEN stack_end_reason.val
    ELSE LET last_is_root == ret # <<>> /\ r.commits[ret[Len(ret)]].parents = <<>>
             hidden_commit == IF ret = <<>> THEN r.commits[head_id]
                              ELSE r.commits[r.commits[ret[Len(ret)]].parents[1]]
         IN  IF last_is_root THEN ReachedRoot
             ELSE IF Len(hidden_commit.parents) > 1 THEN ReachedMergeCommit
             ELSE IF ~c.force_author /\ is_by_another_author(r.gitcfg.signature, hidden_commit)
                  THEN ReachedAnotherAuthor
             ELSE CommitsHiddenByBranches

\* The reason working_stack reports after the loop (lines 103-136).
EndReason(r, c, head_id, ret, stack_end_reason) ==
    IF stack_end_reason.some THEN stack_end_reason.val
    ELSE LET last_is_root == ret # <<>> /\ r.commits[ret[Len(ret)]].parents = <<>>
             hidden_commit == IF ret = <<>> THEN r.commits[head_id]
                              ELSE r.commits[r.commits[ret[Len(ret)]].parents[1]]
         IN  IF last_is_root THEN ReachedRoot
             ELSE IF Len(hidden_commit.parents) > 1 THEN ReachedMergeCommit
             ELSE IF ~c.force_author /\ is_by_another_author(r.gitcfg.signature, hidden_commit)
                  THEN ReachedAnotherAuthor
             ELSE IF c.base.some THEN CommitsHiddenByBase
             ELSE CommitsHiddenByBranches

\* The match after the loop (lines 103-136): working_stack returns.
StackEnd ==
    /\ pc = "stack_walk"
    /\ walk.revwalk = <<>> \/ walk.stack_end_reason.some
    /\ loc' = [loc EXCEPT !.stack = walk.ret,
                          !.stack_end_reason =
                              EndReason(repo, loc.config, repo.head, walk.ret,
                                        walk.stack_end_reason)]
    /\ pc' = "parse"
    /\ UNCHANGED << repo, config, backend, orig, walk, announced, result, pf >>

\* ------------------------------------------------- lib.rs: run_with_repo

\* owned::Diff::by_new: the patch of diff with this new path, if any.
by_new(diff, path) ==
    LET hits == { i \in 1..Len(diff) : diff[i].new_path = path }
    IN  IF hits = {} THEN None ELSE Some(diff[CHOOSE i \in hits : TRUE])

\* repo.diff_tree_to_index(head tree, index) read through owned::Diff::new:
\* the backend's patches for the index the repository holds.
diff_tree_to_index(r, b) ==
    IF r.index = b.staged.tree THEN b.staged.diff
    ELSE IF r.index = b.workdir.tree THEN b.workdir.diff
    ELSE <<>>

\* lib::nothing_left_in_index: the diff of HEAD to the index has no file.
nothing_left_in_index(r, b) == diff_tree_to_index(r, b) = <<>>

\* The Announcement variants the model records.
Announce(kind) == [kind |-> kind]

\* Lines 36-43: unify the configuration and refuse rebase options without
\* --and-rebase.
Start ==
    /\ pc = "start"
    /\ loc' = [loc EXCEPT !.config = unify(config, repo)]
    /\ IF config.rebase_options # <<>> /\ ~config.and_rebase
       THEN result' = "err" /\ pc' = "done"
       ELSE result' = result /\ pc' = "index"
    /\ UNCHANGED << repo, config, backend, orig, walk, announced, pf >>

\* Lines 45-65: auto-stage when nothing is staged and the repository asks
\* for it; return early when nothing is staged.
AutoStage ==
    /\ pc = "index"
    /\ IF nothing_left_in_index(repo, backend)
       THEN IF auto_stage_if_nothing_staged(repo)
            THEN LET staged == [repo EXCEPT !.index = repo.workdir]
                 IN  /\ repo' = staged
                     /\ IF nothing_left_in_index(staged, backend)
                        THEN /\ announced' = Append(announced,
                                    Announce("NothingStagedAfterAutoStaging"))
                             /\ result' = "ok"
                             /\ pc' = "done"
                             /\ loc' = loc
                        ELSE /\ loc' = [loc EXCEPT !.we_added_everything_to_index = TRUE]
                             /\ pc' = "stack_begin"
                             /\ UNCHANGED << announced, result >>
            ELSE /\ announced' = Append(announced, Announce("NothingStaged"))
                 /\ result' = "ok"
                 /\ pc' = "done"
                 /\ UNCHANGED << repo, loc >>
       ELSE /\ pc' = "stack_begin"
            /\ UNCHANGED << repo, loc, announced, result >>
    /\ UNCHANGED << config, backend, orig, walk, pf >>

\* Lines 76-129: the diffs of the stack commits and of the index are parsed,
\* the head tree and head commit are read.
ParseDiffs ==
    /\ pc = "parse"
    /\ loc' = [loc EXCEPT !.index = diff_tree_to_index(repo, backend),
                          !.head_tree = repo.commits[repo.head].tree,
                          !.head_commit = repo.head]
    /\ pc' = "hunks"
    /\ UNCHANGED << repo, config, backend, orig, walk, announced, result, pf >>

RECURSIVE FindDestUntracked(_, _, _, _, _)
\* A variant of FindDest that keeps the path it started with past a commit
\* that renamed the file: C21 must tell it from the original.
FindDestUntracked(stack, k, commuted_old_path, commuted_index_hunk, whole_file) ==
    IF k > Len(stack) THEN 0
    ELSE LET commit == stack[k]
             next_patch == by_new(backend.commit_diff[commit], commuted_old_path)
         IN  IF ~next_patch.some
             THEN FindDestUntracked(stack, k + 1, commuted_old_path, commuted_index_hunk,
                                    whole_file)
             ELSE IF whole_file THEN commit
             ELSE IF next_patch.val.status = "Added" THEN commit
             ELSE LET r == commute_diff_before(commuted_index_hunk, next_patch.val.hunks)
                  IN  IF r.some
                      THEN FindDestUntracked(stack, k + 1, commuted_old_path, r.val,
                                             whole_file)
                      ELSE commit

RECURSIVE FindDest(_, _, _, _, _)
\* The 'commit loop (lines 202-259): the newest commit of the stack, from
\* entry k on, the hunk cannot commute with; 0 when it commutes with all.
FindDest(stack, k, commuted_old_path, commuted_index_hunk, whole_file) ==
    IF k > Len(stack) THEN 0
    ELSE LET commit == stack[k]
             next_patch == by_new(backend.commit_diff[commit], commuted_old_path)
         IN  IF ~next_patch.some
             THEN FindDest(stack, k + 1, commuted_old_path, commuted_index_hunk, whole_file)
             ELSE IF whole_file THEN commit
             ELSE IF next_patch.val.status = "Added" THEN commit
             ELSE LET r == commute_diff_before(commuted_index_hunk, next_patch.val.hunks)
                  IN  IF r.some
                      THEN FindDest(stack, k + 1, next_patch.val.old_path, r.val, whole_file)
                      ELSE commit

\* A variant of SkipPatch that skips the patch without counting it: C16 must
\* tell it from the original.
SkipPatchUncounted ==
    /\ pc = "hunks"
    /\ loc.patch_i <= Len(loc.index)
    /\ loc.index[loc.patch_i].status # "Modified"
    /\ loc' = [loc EXCEPT !.patch_i = @ + 1]
    /\ UNCHANGED << repo, config, backend, orig, pc, walk, announced, result, pf >>

\* Lines 130-139: a patch that is not a modification is counted and skipped.
SkipPatch ==
    /\ pc = "hunks"
    /\ loc.patch_i <= Len(loc.index)
    /\ loc.index[loc.patch_i].status # "Modified"
    /\ loc' = [loc EXCEPT !.non_modified_patches = @ + 1,
                          !.patch_i = @ + 1]
    /\ UNCHANGED << repo, config, backend, orig, pc, walk, announced, result, pf >>

\* One iteration of the 'hunk loop (lines 143-278) for the next hunk of a
\* Modified patch; after the last hunk of a patch the 'patch loop moves on.
NextHunk ==
    /\ pc = "hunks"
    /\ loc.patch_i <= Len(loc.index)
    /\ loc.index[loc.patch_i].status = "Modified"
    /\ LET index_patch == loc.index[loc.patch_i]
           index_hunk == index_patch.hunks[loc.hunk_i]
           \* both offsets are 0 when a patch starts (lines 141-142)
           preceding_hunks_offset == IF loc.hunk_i = 1 THEN 0 ELSE loc.preceding_hunks_offset
           applied_hunks_offset == IF loc.hunk_i = 1 THEN 0 ELSE loc.applied_hunks_offset
           isolated_hunk == shift_added_block(index_hunk, -preceding_hunks_offset)
           hunk_to_apply == shift_both_blocks(isolated_hunk, applied_hunks_offset)
           hunk_offset == changed_offset(index_hunk)
           dest_commit == FindDest(loc.stack, 1, index_patch.new_path, isolated_hunk,
                                   loc.config.whole_file)
           last == loc.hunk_i = Len(index_patch.hunks)
           found == dest_commit # 0
       IN  loc' = [loc EXCEPT
                !.preceding_hunks_offset = preceding_hunks_offset + hunk_offset,
                !.applied_hunks_offset =
                    IF found THEN applied_hunks_offset + hunk_offset
                    ELSE applied_hunks_offset,
                !.modified_hunks_without_target = IF found THEN @ ELSE @ + 1,
                !.hunks_with_commit =
                    IF found
                    THEN Append(@, [hunk_to_apply |-> hunk_to_apply,
                                    dest_commit |-> dest_commit,
                                    index_patch |-> loc.patch_i,
                                    index_hunk |-> loc.hunk_i])
                    ELSE @,
                !.hunk_i = IF last THEN 1 ELSE @ + 1,
                !.patch_i = IF last THEN @ + 1 ELSE @]
    /\ UNCHANGED << repo, config, backend, orig, pc, walk, announced, result, pf >>

\* A variant of write_pre_absorb_head that writes nothing: C6 must tell it
\* from the original.
keep_pre_absorb_head(r, dry_run, id) == r

\* Lines 283-285: repo.reference("PRE_ABSORB_HEAD", id, force) unless this is
\* a dry run.
write_pre_absorb_head(r, dry_run, id) ==
    IF ~dry_run THEN [r EXCEPT !.pre_absorb_head = id] ELSE r

\* Lines 281-285: PRE_ABSORB_HEAD is written unless this is a dry run.
WritePreAbsorbHead ==
    /\ pc = "hunks"
    /\ loc.patch_i > Len(loc.index)
    /\ repo' = write_pre_absorb_head(repo, loc.config.dry_run, loc.head_commit)
    /\ pc' = "fixups"
    /\ UNCHANGED << config, backend, orig, walk, loc, announced, result, pf >>

\* stack::summary_counts: how many commits of the stack have this summary.
summary_counts(r, stack, summary) ==
    Cardinality({ k \in 1..Len(stack) : r.commits[stack[k]].summary = summary })

\* A variant of dest_commit_locator that does not count the summaries of the
\* stack: C17 must tell it from the original.
dest_commit_locator_uncounted(r, stack, dest) ==
    IF r.gitcfg.fixupTargetAlwaysSHA.some /\ r.gitcfg.fixupTargetAlwaysSHA.val
    THEN [sha |-> dest]
    ELSE IF r.commits[dest].summary # ""
         THEN [summary |-> r.commits[dest].summary]
         ELSE [sha |-> dest]

\* Lines 315-323: how the fixup message names its destination.
dest_commit_locator(r, stack, dest) ==
    IF r.gitcfg.fixupTargetAlwaysSHA.some /\ r.gitcfg.fixupTargetAlwaysSHA.val
    THEN [sha |-> dest]
    ELSE IF r.commits[dest].summary # "" /\ summary_counts(r, stack, r.commits[dest].summary) = 1
         THEN [summary |-> r.commits[dest].summary]
         ELSE [sha |-> dest]

\* A variant of commit_fixup that folds adjacent hunks of one destination
\* whatever the option says: C4 must tell it from the original.
commit_fixup_folding(hunks_with_commit, i, one_fixup_per_commit) ==
    IF i = Len(hunks_with_commit) THEN TRUE
    ELSE hunks_with_commit[i + 1].dest_commit # hunks_with_commit[i].dest_commit

\* Lines 306-309: whether the fixup is committed after hunk i of the queue.
commit_fixup(hunks_with_commit, i, one_fixup_per_commit) ==
    IF i = Len(hunks_with_commit) THEN TRUE
    ELSE \/ ~one_fixup_per_commit
         \/ hunks_with_commit[i + 1].dest_commit # hunks_with_commit[i].dest_commit

\* Oid::to_string (line 315): the full hash of a commit, one text per id.
id_to_string(id) ==
    << "#01", "#02", "#03", "#04", "#05", "#06", "#07", "#08", "#09", "#10",
       "#11", "#12", "#13", "#14", "#15", "#16", "#17", "#18", "#19", "#20",
       "#21", "#22", "#23", "#24" >>[id]

\* Lines 329-335: the text of the commit message, piece by piece:
\* format!("{}! {}\n", verb, locator), then "\n", m and "\n" for a message m
\* that is not empty.
format_message(verb, locator, m) ==
    << verb, "! ",
       IF "sha" \in DOMAIN locator THEN id_to_string(locator.sha) ELSE locator.summary,
       "\n" >>
    \o (IF m.some /\ m.val # "" THEN << "\n", m.val, "\n" >> ELSE <<>>)

\* repo.signature() or the fallback of lines 121-123.
signature(r) ==
    IF r.gitcfg.signature.some THEN r.gitcfg.signature.val
    ELSE [name |-> "nobody", email |-> "nobody@example.com"]

\* repo.commit(Some("HEAD"), ...): the commit is written and HEAD, or the
\* branch HEAD names, moves to it.
WriteCommit(r, commit) ==
    LET id == Len(r.commits) + 1
    IN  [r EXCEPT !.commits = Append(@, commit),
                  !.head = id,
                  !.branches = IF r.head_name \in DOMAIN @
                               THEN [@ EXCEPT ![r.head_name] = id]
                               ELSE @]

RECURSIVE fixup_loop(_, _, _, _, _, _)
\* The fixup loop (lines 294-366) from hunk i on, as a function of dry_run:
\* the fixup target and the change stats of each announcement it makes, in
\* order. head_tree and commit_tree are the loop's head_tree and the tree of
\* its head_commit.
fixup_loop(r, l, i, head_tree, commit_tree, dry_run) ==
    IF i > Len(l.hunks_with_commit) THEN <<>>
    ELSE LET current == l.hunks_with_commit[i]
             new_head_tree == apply_hunk_to_tree(head_tree, current.hunk_to_apply,
                                                 l.index[current.index_patch].old_path)
         IN  IF ~new_head_tree.some THEN <<>>
             ELSE IF commit_fixup(l.hunks_with_commit, i, l.config.one_fixup_per_commit)
             THEN << [fixup |-> dest_commit_locator(r, l.stack, current.dest_commit),
                      stats |-> diff_stats(commit_tree, new_head_tree.val)] >>
                  \o (IF ~dry_run
                      THEN fixup_loop(r, l, i + 1, new_head_tree.val,
                                      new_head_tree.val, dry_run)
                      ELSE fixup_loop(r, l, i + 1, head_tree, commit_tree, dry_run))
             ELSE fixup_loop(r, l, i + 1, new_head_tree.val, commit_tree, dry_run)

\* One iteration of the fixup loop (lines 294-366).
ApplyHunk ==
    /\ pc = "fixups"
    /\ loc.fix_i <= Len(loc.hunks_with_commit)
    /\ LET current == loc.hunks_with_commit[loc.fix_i]
           new_head_tree == apply_hunk_to_tree(loc.head_tree, current.hunk_to_apply,
                                               loc.index[current.index_patch].old_path)
           locator == dest_commit_locator(repo, loc.stack, current.dest_commit)
       IN  IF ~new_head_tree.some
           THEN /\ result' = "err"
                /\ pc' = "done"
                /\ UNCHANGED << repo, loc, announced >>
           ELSE IF commit_fixup(loc.hunks_with_commit, loc.fix_i,
                                loc.config.one_fixup_per_commit)
           THEN IF ~loc.config.dry_run
                THEN LET verb == IF loc.config.squash THEN "squash" ELSE "fixup"
                         body == IF loc.config.message.some /\ loc.config.message.val # ""
                                 THEN loc.config.message
                                 ELSE None
                         commit == [parents |-> << loc.head_commit >>,
                                    author |-> signature(repo),
                                    summary |-> verb,
                                    message |-> [verb |-> verb, target |-> locator,
                                                 body |-> body,
                                                 text |-> format_message(verb, locator,
                                                            loc.config.message)],
                                    tree |-> new_head_tree.val]
                         written == WriteCommit(repo, commit)
                         diff == diff_stats(repo.commits[loc.head_commit].tree,
                                            new_head_tree.val)
                     IN  /\ repo' = written
                         /\ loc' = [loc EXCEPT !.head_tree = new_head_tree.val,
                                               !.head_commit = written.head,
                                               !.fix_i = @ + 1]
                         /\ announced' = Append(announced,
                                [kind |-> "Committed", commit |-> written.head,
                                 fixup |-> locator, stats |-> diff])
                         /\ UNCHANGED << result, pc >>
                ELSE /\ announced' = Append(announced,
                            [kind |-> "WouldHaveCommitted",
                             commit |-> current.dest_commit, fixup |-> locator,
                             stats |-> diff_stats(repo.commits[loc.head_commit].tree,
                                                  new_head_tree.val)])
                     /\ loc' = [loc EXCEPT !.fix_i = @ + 1]
                     /\ UNCHANGED << repo, result, pc >>
           ELSE \* nothing is committed, but the hunk was applied
                /\ loc' = [loc EXCEPT !.head_tree = new_head_tree.val,
                                      !.fix_i = @ + 1]
                /\ UNCHANGED << repo, announced, result, pc >>
    /\ UNCHANGED << config, backend, orig, walk, pf >>

\* A variant of ResetIndex that resets the index only after a fixup was
\* made: C20 must tell it from the original.
ResetIndexAfterFixups ==
    /\ pc = "fixups"
    /\ loc.fix_i > Len(loc.hunks_with_commit)
    /\ repo' = IF loc.we_added_everything_to_index /\ loc.hunks_with_commit # <<>>
               THEN [repo EXCEPT !.index = loc.head_tree]
               ELSE repo
    /\ pc' = "report"
    /\ UNCHANGED << config, backend, orig, walk, loc, announced, result, pf >>

\* Lines 368-375: after auto-staging the index is reset to the head tree.
ResetIndex ==
    /\ pc = "fixups"
    /\ loc.fix_i > Len(loc.hunks_with_commit)
    /\ repo' = IF loc.we_added_everything_to_index
               THEN [repo EXCEPT !.index = loc.head_tree]
               ELSE repo
    /\ pc' = "report"
    /\ UNCHANGED << config, backend, orig, walk, loc, announced, result, pf >>

\* A variant of ReasonAnnouncement that blames the first commit whatever the
\* reason: C15 must tell it from the original.
ReasonAnnouncementRootOnly(reason) == Announce("CannotFixUpPastFirstCommit")

\* The diagnostic for a stack end reason (lines 394-427).
ReasonAnnouncement(reason) ==
    CASE reason = ReachedRoot -> Announce("CannotFixUpPastFirstCommit")
      [] reason = ReachedMergeCommit ->
            [kind |-> "CannotFixUpPastMerge",
             commit |-> IF loc.stack # <<>> THEN loc.stack[Len(loc.stack)]
                        ELSE loc.head_commit]
      [] reason = ReachedAnotherAuthor ->
            [kind |-> "WillNotFixUpPastAnotherAuthor",
             commit |-> IF loc.stack # <<>> THEN loc.stack[Len(loc.stack)]
                        ELSE loc.head_commit]
      [] reason = ReachedLimit ->
            [kind |-> "WillNotFixUpPastStackLimit", limit |-> max_stack(repo)]
      [] reason = CommitsHiddenByBase ->
            [kind |-> "CommitsHiddenByBase", base |-> loc.config.base.val]
      [] reason = CommitsHiddenByBranches -> Announce("CommitsHiddenByBranches")

\* Lines 377-428: what the run found is announced.
Report ==
    /\ pc = "report"
    /\ IF loc.non_modified_patches = Len(loc.index)
       THEN /\ announced' = Append(announced, Announce("NoFileModifications"))
            /\ result' = "ok"
            /\ pc' = "done"
       ELSE /\ announced' =
                announced
                \o (IF loc.non_modified_patches > 0 /\ ~loc.we_added_everything_to_index
                    THEN << Announce("NonFileModifications") >> ELSE <<>>)
                \o (IF loc.modified_hunks_without_target > 0
                    THEN << Announce("FileModificationsWithoutTarget"),
                            ReasonAnnouncement(loc.stack_end_reason) >>
                    ELSE <<>>)
            /\ result' = result
            /\ pc' = "rebase"
    /\ UNCHANGED << repo, config, backend, orig, walk, loc, pf >>

\* A variant of rebase_args that rebases onto the parent of the newest commit
\* of the stack: C18 must tell it from the original.
rebase_args_newest(r, stack) ==
    LET first_commit_in_stack == r.commits[stack[1]]
    IN  << "rebase", "--interactive", "--autosquash", "--autostash",
           IF Len(first_commit_in_stack.parents) = 0
           THEN "--root"
           ELSE id_to_string(first_commit_in_stack.parents[1]) >>

\* The rebase command of lines 430-452.
rebase_args(r, stack) ==
    LET last_commit_in_stack == r.commits[stack[Len(stack)]]
    IN  << "rebase", "--interactive", "--autosquash", "--autostash",
           IF Len(last_commit_in_stack.parents) = 0
           THEN "--root"
           ELSE id_to_string(last_commit_in_stack.parents[1]) >>

RECURSIVE join(_, _)
\* [&str]::join (line 487): the pieces of the text, the separator between
\* any two of the arguments.
join(args, sep) ==
    IF Len(args) <= 1 THEN args
    ELSE << Head(args), sep >> \o join(Tail(args), sep)

\* Lines 430-491: the rebase is announced or spawned; the run returns Ok.
\* The spawned process is recorded, what it does to the repository is not
\* part of run_with_repo.
Rebase ==
    /\ pc = "rebase"
    /\ IF loc.hunks_with_commit # <<>>
       THEN LET args == rebase_args(repo, loc.stack)
            IN  IF loc.config.and_rebase
                THEN IF loc.config.dry_run
                     THEN /\ announced' = Append(announced,
                                [kind |-> "WouldHaveRebased",
                                 command |-> args \o loc.config.rebase_options])
                          /\ loc' = loc
                     ELSE /\ loc' = [loc EXCEPT !.spawned =
                                        Some(args \o loc.config.rebase_options)]
                          /\ announced' = announced
                ELSE /\ announced' =
                            IF ~loc.config.dry_run
                            THEN Append(announced,
                                    [kind |-> "HowToSquash", command |-> join(args, " ")])
                            ELSE announced
                     /\ loc' = loc
       ELSE UNCHANGED << loc, announced >>
    /\ result' = "ok"
    /\ pc' = "done"
    /\ UNCHANGED << repo, config, backend, orig, walk, pf >>

\* ------------------------------------------------------------- main.rs

\* main.rs lines 127-142: the Config built from the command line.
MainConfig(cli) ==
    [dry_run |-> cli.dry_run,
     force_author |-> cli.force_author \/ cli.force,
     force_detach |-> cli.force_detach \/ cli.force,
     base |-> cli.base,
     and_rebase |-> cli.and_rebase,
     rebase_options |-> cli.rebase_options,
     no_limit |-> cli.no_limit,
     whole_file |-> cli.whole_file,
     one_fixup_per_commit |-> cli.one_fixup_per_commit,
     squash |-> cli.squash,
     message |-> cli.message]

\* The command line without any option.
DefaultCli ==
    [base |-> None, dry_run |-> FALSE, no_limit |-> FALSE, force_author |-> FALSE,
     force_detach |-> FALSE, force |-> FALSE, and_rebase |-> FALSE,
     rebase_options |-> <<>>, whole_file |-> FALSE, one_fixup_per_commit |-> FALSE,
     squash |-> FALSE, message |-> None]

\* ------------------------------------------------ repositories of the model

\* The identity of the user, and two identities that differ from it in the
\* name or in the email.
Me == [name |-> "nobody", email |-> "nobody@example.com"]
OtherName == [name |-> "nobody2", email |-> "nobody@example.com"]
OtherEmail == [name |-> "nobody", email |-> "nobody2@example.com"]

\* A repository configuration with the user's identity and no absorb.* key.
DefaultGitCfg ==
    [maxStack |-> None, forceAuthor |-> None, oneFixupPerCommit |-> None,
     autoStageIfNothingStaged |-> None, fixupTargetAlwaysSHA |-> None,
     signature |-> Some(Me)]

\* The line a change adds.
NewLine == Line(110)

\* The lines of the file of length n a root commit adds: "1", "2", ...
RootLines(n) == [i \in 1..n |-> Line(48 + i)]

\* An edit replaces nrem lines from line pos on by the lines add. The edits a
\* diff with no context lines can report from line `from` on of a file of
\* len lines:
EditsAt(from, len) ==
    { [pos |-> p, nrem |-> k, add |-> a] :
        p \in from..(len + 1), k \in 0..1, a \in { <<>>, << NewLine >> } }
    \ { e \in [pos : from..(len + 1), nrem : 0..1, add : { <<>>, << NewLine >> }] :
            (e.nrem = 0 /\ e.add = <<>>) \/ e.pos + e.nrem - 1 > len }

RECURSIVE EditSeqs(_, _, _)
\* The edit lists of at most k hunks: sorted, with an unchanged line between
\* two hunks (adjacent changes are one hunk).
EditSeqs(from, len, k) ==
    IF k = 0 THEN { <<>> }
    ELSE { <<>> } \cup
         UNION { { << e >> \o rest : rest \in EditSeqs(e.pos + e.nrem + 1, len, k - 1) } :
                    e \in EditsAt(from, len) }

RECURSIVE DiffHunks(_, _, _, _)
\* The hunks owned::Patch::new reads from the backend's patch for these edits
\* of the file old: a side without lines starts at the line before the change,
\* the added side counts the lines of the new file.
DiffHunks(old, edits, i, offset) ==
    IF i > Len(edits) THEN <<>>
    ELSE LET e == edits[i]
             h == Hunk(Block((IF e.add # <<>> THEN e.pos ELSE e.pos - 1) + offset, e.add),
                       Block(IF e.nrem > 0 THEN e.pos ELSE e.pos - 1,
                             SubSeq(old, e.pos, e.pos + e.nrem - 1)))
         IN  << h >> \o DiffHunks(old, edits, i + 1, offset + Len(e.add) - e.nrem)

RECURSIVE ApplyEdits(_, _, _, _)
\* The file old with the edits i..1 applied whose number is in sel, the last
\* one first: what the edits mean.
ApplyEdits(old, edits, i, sel) ==
    IF i = 0 THEN old
    ELSE LET e == edits[i]
             new == IF i \in sel
                    THEN SubSeq(old, 1, e.pos - 1) \o e.add
                            \o SubSeq(old, e.pos + e.nrem, Len(old))
                    ELSE old
         IN  ApplyEdits(new, edits, i - 1, sel)

\* The file old with all the edits applied.
Edited(old, edits) == ApplyEdits(old, edits, Len(edits), 1..Len(edits))

\* The patch of a modified file, and of an added file.
ModifiedPatch(path, old, edits) ==
    [old_path |-> path, new_path |-> path, status |-> "Modified",
     hunks |-> DiffHunks(old, edits, 1, 0)]
AddedPatch(path, lines) ==
    [old_path |-> path, new_path |-> path, status |-> "Added",
     hunks |-> << Hunk(Block(1, lines), Block(0, <<>>)) >>]

\* The tree with the file f1 of these lines, and with the file f2 beside it.
Tree1(lines) == [p \in { "f1" } |-> Concat(lines)]
Tree2(lines, other) ==
    [p \in { "f1", "f2" } |-> IF p = "f1" THEN Concat(lines) ELSE Concat(other)]

\* A commit object.
Commit(parents, author, summary, tree) ==
    [parents |-> parents, author |-> author, summary |-> summary,
     message |-> [verb |-> "", target |-> [summary |-> summary], body |-> None,
                  text |-> << summary, "\n" >>],
     tree |-> tree]

\* The scenario of a change to a file with history: a root commit adds f1,
\* a second commit (when hist is not empty) edits it, the user edits it again
\* (idx) and may add a file f2 (extra); the changes are in the index when
\* staged, in the working directory only otherwise.
ContentScenario(hist, idx, extra, staged, cli, gitcfg, pre_absorb_head) ==
    LET root == RootLines(FileLen)
        head_lines == Edited(root, hist)
        commits == << Commit(<<>>, Me, "c1", Tree1(root)) >>
                   \o (IF hist # <<>>
                       THEN << Commit(<< 1 >>, Me, "c2", Tree1(head_lines)) >>
                       ELSE <<>>)
        head_tree == Tree1(head_lines)
        new_lines == Edited(head_lines, idx)
        new_tree == IF extra THEN Tree2(new_lines, << Line(122) >>) ELSE Tree1(new_lines)
        new_diff == (IF idx # <<>> THEN << ModifiedPatch("f1", head_lines, idx) >> ELSE <<>>)
                    \o (IF extra THEN << AddedPatch("f2", << Line(122) >>) >> ELSE <<>>)
    IN  [repo |-> [commits |-> commits,
                   head |-> Len(commits),
                   head_name |-> "refs/heads/master",
                   branches |-> [n \in { "refs/heads/master" } |-> Len(commits)],
                   pre_absorb_head |-> pre_absorb_head,
                   index |-> IF staged THEN new_tree ELSE head_tree,
                   workdir |-> new_tree,
                   gitcfg |-> gitcfg],
         cli |-> cli,
         backend |-> [commit_diff |-> << << AddedPatch("f1", root) >> >>
                                      \o (IF hist # <<>>
                                          THEN << << ModifiedPatch("f1", root, hist) >> >>
                                          ELSE <<>>),
                      staged |-> [tree |-> IF staged THEN new_tree ELSE head_tree,
                                  diff |-> IF staged THEN new_diff ELSE <<>>],
                      workdir |-> [tree |-> new_tree, diff |-> new_diff]]]

\* The locals of run_with_repo before it starts.
InitLoc ==
    [config |-> DefaultCli,
     we_added_everything_to_index |-> FALSE,
     stack |-> <<>>,
     stack_end_reason |-> "none",
     index |-> <<>>,
     head_tree |-> << >>,
     head_commit |-> 0,
     hunks_with_commit |-> <<>>,
     modified_hunks_without_target |-> 0,
     non_modified_patches |-> 0,
     patch_i |-> 1,
     hunk_i |-> 1,
     preceding_hunks_offset |-> 0,
     applied_hunks_offset |-> 0,
     fix_i |-> 1,
     spawned |-> None]

InitWalk == [revwalk |-> <<>>, ret |-> <<>>, stack_end_reason |-> None]

\* The harness is idle in the orchestrator's specification.
IdlePf == [op |-> "idle"]

\* The state in which run_with_repo is entered for a scenario.
InitFrom(s) ==
    /\ repo = s.repo
    /\ config = MainConfig(s.cli)
    /\ backend = s.backend
    /\ orig = s.repo @@ [cli |-> s.cli]
    /\ pc = "start"
    /\ walk = InitWalk
    /\ loc = InitLoc
    /\ announced = <<>>
    /\ result = "running"
    /\ pf = IdlePf

\* The summaries of the commits of a chain.
SummaryOf(k) ==
    << "c1", "c2", "c3", "c4", "c5", "c6", "c7", "c8", "c9", "c10", "c11", "c12",
       "c13", "c14" >>[k]

\* The scenario of a history with a shape: a first-parent chain of n commits
\* (1 is the root, n is HEAD); commit `touch` is the last one that wrote the
\* only line of f1; commit merge_at (if not 0) has the root commit n + 1 as
\* its second parent; commit author_at (if not 0) is by `other`; a second
\* local branch points at commit hide_at (if not 0); HEAD is detached or on
\* master; the user staged a change of the line.
StackScenario(n, touch, merge_at, author_at, other, hide_at, detached, cli, gitcfg) ==
    LET lines(k) == IF touch > 1 /\ k >= touch THEN << Line(50) >> ELSE << Line(49) >>
        chain == [k \in 1..n |->
                    Commit(IF k = 1 THEN <<>>
                           ELSE IF k = merge_at THEN << k - 1, n + 1 >>
                           ELSE << k - 1 >>,
                           IF k = author_at THEN other ELSE Me,
                           SummaryOf(k), Tree1(lines(k)))]
        side == IF merge_at # 0
                THEN << Commit(<<>>, Me, SummaryOf(n + 1), Tree1(<< Line(49) >>)) >>
                ELSE <<>>
        diffs == [k \in 1..n |->
                    IF k = 1 THEN << AddedPatch("f1", << Line(49) >>) >>
                    ELSE IF k = touch
                    THEN << ModifiedPatch("f1", << Line(49) >>,
                                << [pos |-> 1, nrem |-> 1, add |-> << Line(50) >>] >>) >>
                    ELSE <<>>]
        side_diff == IF merge_at # 0 THEN << << AddedPatch("f1", << Line(49) >>) >> >>
                     ELSE <<>>
        idx == << [pos |-> 1, nrem |-> 1, add |-> << NewLine >>] >>
        new_tree == Tree1(Edited(lines(n), idx))
        new_diff == << ModifiedPatch("f1", lines(n), idx) >>
        names == (IF detached THEN {} ELSE { "refs/heads/master" })
                 \cup (IF hide_at # 0 THEN { "refs/heads/hide" } ELSE {})
    IN  [repo |-> [commits |-> chain \o side,
                   head |-> n,
                   head_name |-> IF detached THEN "HEAD" ELSE "refs/heads/master",
                   branches |-> [b \in names |->
                                    IF b = "refs/heads/hide" THEN hide_at ELSE n],
                   pre_absorb_head |-> 0,
                   index |-> new_tree,
                   workdir |-> new_tree,
                   gitcfg |-> gitcfg],
         cli |-> cli,
         backend |-> [commit_diff |-> diffs \o side_diff,
                      staged |-> [tree |-> new_tree, diff |-> new_diff],
                      workdir |-> [tree |-> new_tree, diff |-> new_diff]]]

\* Changes to a file with history, under the options that decide where a
\* hunk goes.
InitContent ==
    \E hist \in EditSeqs(1, FileLen, 1) :
    \E idx \in EditSeqs(1, Len(Edited(RootLines(FileLen), hist)), MaxHunks) :
    \E wf \in BOOLEAN, one \in BOOLEAN, ms \in { None, Some(1) } :
        InitFrom(ContentScenario(hist, idx, FALSE, TRUE,
                    [DefaultCli EXCEPT !.whole_file = wf, !.one_fixup_per_commit = one],
                    [DefaultGitCfg EXCEPT !.maxStack = ms], 0))

\* Changes to a file one commit wrote, staged or not, under the options that
\* decide what the run writes.
InitOptions ==
    \E idx \in EditSeqs(1, FileLen, MaxHunks - 1) :
    \E extra \in BOOLEAN, staged \in BOOLEAN, auto \in { None, Some(TRUE) } :
    \E dry \in BOOLEAN, reb \in BOOLEAN, one \in BOOLEAN, pre \in 0..1 :
        InitFrom(ContentScenario(<<>>, idx, extra, staged,
                    [DefaultCli EXCEPT !.dry_run = dry, !.and_rebase = reb,
                                       !.one_fixup_per_commit = one],
                    [DefaultGitCfg EXCEPT !.autoStageIfNothingStaged = auto], pre))

\* Histories with merges, other authors, other branches and a base, under the
\* options of working_stack.
InitStack ==
    \E n \in 1..MaxChain :
    \E merge_at \in { 0 } \cup 2..n, author_at \in 0..n, hide_at \in 0..n :
    \E other \in { OtherName, OtherEmail } :
    \E base \in { None } \cup { Some(b) : b \in 1..n } :
    \E ms \in { None, Some(0), Some(1), Some(2) } :
    \E nl \in BOOLEAN, fa \in BOOLEAN :
        /\ author_at = 0 => other = OtherName
        /\ InitFrom(StackScenario(n, 1, merge_at, author_at, other, hide_at, FALSE,
                        [DefaultCli EXCEPT !.base = base, !.no_limit = nl,
                                           !.force_author = fa],
                        [DefaultGitCfg EXCEPT !.maxStack = ms]))

\* Where force_author and force_detach come from, with and without an
\* identity, on a branch and on a detached HEAD.
InitForce ==
    \E author_at \in 0..2, touch \in 1..2, detached \in BOOLEAN :
    \E fa \in BOOLEAN, fd \in BOOLEAN, force \in BOOLEAN :
    \E cfa \in { None, Some(FALSE), Some(TRUE) }, sig \in { None, Some(Me) } :
    \E opts \in { <<>>, << "--keep-empty" >> }, reb \in BOOLEAN, pre \in 0..1 :
        /\ opts # <<>> => ~fa /\ ~fd /\ ~force /\ cfa = None
        /\ LET s == StackScenario(2, touch, 0, author_at, OtherName, 0, detached,
                        [DefaultCli EXCEPT !.force_author = fa, !.force_detach = fd,
                                           !.force = force, !.rebase_options = opts,
                                           !.and_rebase = reb],
                        [DefaultGitCfg EXCEPT !.forceAuthor = cfa, !.signature = sig])
           IN  InitFrom([s EXCEPT !.repo.pre_absorb_head = pre])

\* Chains longer than the default limit; the candidate past the limit may be
\* a merge, by another author, or hidden by a branch.
InitLong ==
    \E n \in { MAX_STACK + 1, MAX_STACK + 2 } :
    \E kind \in { "plain", "merge", "author", "hidden" } :
    \E ms \in { None, Some(0), Some(2), Some(MAX_STACK + 1) } :
    \E nl \in BOOLEAN, base \in { None, Some(1) } :
        LET at == n - MAX_STACK
        IN  /\ kind = "merge" => at > 1
            /\ InitFrom(StackScenario(n, 1,
                            IF kind = "merge" THEN at ELSE 0,
                            IF kind = "author" THEN at ELSE 0, OtherEmail,
                            IF kind = "hidden" THEN at ELSE 0, FALSE,
                            [DefaultCli EXCEPT !.base = base, !.no_limit = nl],
                            [DefaultGitCfg EXCEPT !.maxStack = ms]))

\* The scenario s with the change left in the working directory: the index
\* holds the tree of HEAD.
Unstaged(s) ==
    LET head_tree == s.repo.commits[s.repo.head].tree
    IN  [s EXCEPT !.repo.index = head_tree,
                  !.backend.staged = [tree |-> head_tree, diff |-> <<>>]]

\* The scenario s with a new file f2 beside the change.
WithNewFile(s) ==
    LET added(tree) == [p \in DOMAIN tree \cup { "f2" } |->
                            IF p = "f2" THEN Line(122) ELSE tree[p]]
        patch == AddedPatch("f2", << Line(122) >>)
    IN  [s EXCEPT !.repo.index = added(@),
                  !.repo.workdir = added(@),
                  !.backend.staged = [tree |-> added(@.tree), diff |-> Append(@.diff, patch)],
                  !.backend.workdir = [tree |-> added(@.tree), diff |-> Append(@.diff, patch)]]

\* A modified file and a new one past the stack limit: the modification may
\* find no destination; staged by the user or by auto-staging.
InitMixed ==
    \E n \in 2..MaxChain, ms \in { None, Some(1) } :
    \E staged \in BOOLEAN, auto \in { None, Some(TRUE) }, dry \in BOOLEAN :
        LET s == WithNewFile(StackScenario(n, 1, 0, 0, OtherName, 0, FALSE,
                        [DefaultCli EXCEPT !.dry_run = dry],
                        [DefaultGitCfg EXCEPT !.maxStack = ms,
                                              !.autoStageIfNothingStaged = auto]))
        IN  InitFrom(IF staged THEN s ELSE Unstaged(s))

\* The scenario s with this summary for commit k.
WithSummary(s, k, summary) ==
    [s EXCEPT !.repo.commits[k] =
        Commit(@.parents, @.author, summary, @.tree)]

\* Fixup messages: squash or not, with a body, an empty body or none, with
\* absorb.fixupTargetAlwaysSHA, and with a summary that occurs twice in the
\* stack, twice in the history but once in the stack, or is missing.
InitMessage ==
    \E touch \in 2..3, at \in 1..3, summary \in { "c1", "c2", "c3", "" } :
    \E ms \in { None, Some(2) }, squash \in BOOLEAN :
    \E message \in { None, Some(""), Some("body") } :
    \E sha \in { None, Some(FALSE), Some(TRUE) } :
        InitFrom(WithSummary(
            StackScenario(3, touch, 0, 0, OtherName, 0, FALSE,
                [DefaultCli EXCEPT !.squash = squash, !.message = message],
                [DefaultGitCfg EXCEPT !.maxStack = ms, !.fixupTargetAlwaysSHA = sha]),
            at, summary))

\* The patch of a commit that renamed the file old_path to new_path and made
\* these edits.
RenamedPatch(old_path, new_path, old, edits) ==
    [old_path |-> old_path, new_path |-> new_path, status |-> "Renamed",
     hunks |-> DiffHunks(old, edits, 1, 0)]

\* The scenario of a file that was renamed: commit 1 adds f0, commit 2
\* renames it to f1 with the edits hist, commit 3 adds f2; the user staged
\* the edits idx of f1.
RenameScenario(hist, idx, cli, gitcfg) ==
    LET root == RootLines(FileLen)
        head_lines == Edited(root, hist)
        new_lines == Edited(head_lines, idx)
        other == << Line(122) >>
        tree0 == [p \in { "f0" } |-> Concat(root)]
        commits == << Commit(<<>>, Me, "c1", tree0),
                      Commit(<< 1 >>, Me, "c2", Tree1(head_lines)),
                      Commit(<< 2 >>, Me, "c3", Tree2(head_lines, other)) >>
        new_tree == Tree2(new_lines, other)
        new_diff == << ModifiedPatch("f1", head_lines, idx) >>
    IN  [repo |-> [commits |-> commits,
                   head |-> 3,
                   head_name |-> "refs/heads/master",
                   branches |-> [n \in { "refs/heads/master" } |-> 3],
                   pre_absorb_head |-> 0,
                   index |-> new_tree,
                   workdir |-> new_tree,
                   gitcfg |-> gitcfg],
         cli |-> cli,
         backend |-> [commit_diff |-> << << AddedPatch("f0", root) >>,
                                         << RenamedPatch("f0", "f1", root, hist) >>,
                                         << AddedPatch("f2", other) >> >>,
                      staged |-> [tree |-> new_tree, diff |-> new_diff],
                      workdir |-> [tree |-> new_tree, diff |-> new_diff]]]

\* Changes to a file that an earlier commit renamed, with the whole stack or
\* a stack that ends before the commit that added the file.
InitRename ==
    \E hist \in EditSeqs(1, FileLen, 1) :
    \E idx \in EditSeqs(1, Len(Edited(RootLines(FileLen), hist)), MaxHunks - 1) \ { <<>> } :
    \E wf \in BOOLEAN, ms \in { None, Some(2) } :
        InitFrom(RenameScenario(hist, idx, [DefaultCli EXCEPT !.whole_file = wf],
                                [DefaultGitCfg EXCEPT !.maxStack = ms]))

\* The usage errors: rebase options without --and-rebase, a detached HEAD
\* without --force-detach; with the change staged or not, with and without
\* auto-staging.
InitUsage ==
    \E detached \in BOOLEAN, fd \in BOOLEAN, staged \in BOOLEAN, dry \in BOOLEAN :
    \E auto \in { None, Some(TRUE) } :
    \E opts \in { <<>>, << "--keep-empty" >> }, reb \in BOOLEAN :
        LET s == StackScenario(2, 2, 0, 0, OtherName, 0, detached,
                    [DefaultCli EXCEPT !.force_detach = fd, !.dry_run = dry,
                                       !.rebase_options = opts, !.and_rebase = reb],
                    [DefaultGitCfg EXCEPT !.autoStageIfNothingStaged = auto])
        IN  InitFrom(IF staged THEN s ELSE Unstaged(s))

Init ==
    \/ InitContent \/ InitOptions \/ InitStack \/ InitForce \/ InitLong \/ InitUsage
    \/ InitMixed \/ InitMessage \/ InitRename

Next ==
    \/ Start
    \/ AutoStage
    \/ StackBegin
    \/ StackVisit
    \/ StackEnd
    \/ ParseDiffs
    \/ SkipPatch
    \/ NextHunk
    \/ WritePreAbsorbHead
    \/ ApplyHunk
    \/ ResetIndex
    \/ Report
    \/ Rebase

Spec == Init /\ [][Next]_vars

\* ------------------------------------------------- a backend that may fail

\* A backend operation of the next step returns an error and `?` hands it to
\* the caller: run_with_repo returns Err where it stands. (The report of
\* lines 377-428 calls nothing that can fail.)
BackendFails ==
    /\ pc \in { "start", "index", "stack_begin", "stack_walk", "parse", "hunks",
                "fixups", "rebase" }
    /\ result' = "err"
    /\ pc' = "done"
    /\ UNCHANGED << repo, config, backend, orig, walk, loc, announced, pf >>

InitFail == InitOptions \/ InitUsage

NextFail == Next \/ BackendFails

SpecFail == InitFail /\ [][NextFail]_vars

\* ----------------------------------------------------------------- claims

RECURSIVE SplitLines(_)
\* The lines of a blob, each with its terminator (the last one may have none).
SplitLines(blob) ==
    IF blob = <<>> THEN <<>>
    ELSE LET parts == split_lines_after(blob, 1)
         IN  << parts[1] >> \o SplitLines(parts[2])

RECURSIVE PatchedLines(_, _, _, _)
\* What a diff means: the lines old with the hunks i..1 whose number is in sel
\* put in place, each where its removed side says (after line removed.start
\* for a hunk that removes nothing).
PatchedLines(old, hunks, i, sel) ==
    IF i = 0 THEN old
    ELSE LET h == hunks[i]
             nrem == Len(h.removed.lines)
             pos == IF nrem > 0 THEN h.removed.start ELSE h.removed.start + 1
             new == IF i \in sel
                    THEN SubSeq(old, 1, pos - 1) \o h.added.lines
                            \o SubSeq(old, pos + nrem, Len(old))
                    ELSE old
         IN  PatchedLines(new, hunks, i - 1, sel)

\* The run has returned Ok and was no dry run.
FinishedRun == pc = "done" /\ result = "ok" /\ ~loc.config.dry_run

\* The hunks of patch p of the index diff that were queued with a destination.
Destined(p) ==
    { loc.hunks_with_commit[k].index_hunk :
        k \in { j \in 1..Len(loc.hunks_with_commit) :
                    loc.hunks_with_commit[j].index_patch = p } }

\* The original head tree with the destined hunks of the Modified patches of
\* the index diff in place.
ExpectedTree ==
    LET base == orig.commits[orig.head].tree
        patch_of(path) == { p \in 1..Len(loc.index) :
                                /\ loc.index[p].status = "Modified"
                                /\ loc.index[p].new_path = path }
    IN  [path \in DOMAIN base |->
            IF patch_of(path) = {} THEN base[path]
            ELSE LET p == CHOOSE q \in patch_of(path) : TRUE
                 IN  Concat(PatchedLines(SplitLines(base[path]), loc.index[p].hunks,
                                         Len(loc.index[p].hunks), Destined(p)))]

\* The tree the index diff was taken of.
DiffedIndex == IF loc.we_added_everything_to_index THEN orig.workdir ELSE orig.index

\* C1: after a run that is no dry run, the tree of HEAD is the original head
\* tree with exactly the hunks of Modified patches that found a destination
\* applied, each at its place in the staged file; when every staged change is
\* such a hunk, it is the tree of the index.
C1_FinalTree ==
    FinishedRun =>
        /\ repo.commits[repo.head].tree = ExpectedTree
        /\ (loc.non_modified_patches = 0 /\ loc.modified_hunks_without_target = 0
                => repo.commits[repo.head].tree = DiffedIndex)

\* C1 witness: a finished run that queued a hunk of a file after it left an
\* earlier hunk of that file without destination, and a later one behind.
C1_Witness ==
    /\ FinishedRun
    /\ \E p \in 1..Len(loc.index) :
        /\ loc.index[p].status = "Modified"
        /\ \E i \in Destined(p), j \in 1..Len(loc.index[p].hunks) :
            /\ j < i
            /\ j \notin Destined(p)
            /\ changed_offset(loc.index[p].hunks[j]) # 0

\* The run has returned (Ok or Err) and was a dry run.
DryRunEnded == pc = "done" /\ config.dry_run

\* C3: a dry run leaves HEAD, the index and every reference, PRE_ABSORB_HEAD
\* included, as they were before the run, whatever the configuration.
C3_DryRunChangesNothing ==
    DryRunEnded =>
        /\ repo.head = orig.head
        /\ repo.head_name = orig.head_name
        /\ repo.branches = orig.branches
        /\ repo.pre_absorb_head = orig.pre_absorb_head
        /\ repo.index = orig.index

\* C3, without the index: a dry run leaves HEAD and every reference as they
\* were and writes no commit.
C3_DryRunKeepsReferences ==
    config.dry_run =>
        /\ repo.head = orig.head
        /\ repo.head_name = orig.head_name
        /\ repo.branches = orig.branches
        /\ repo.pre_absorb_head = orig.pre_absorb_head
        /\ repo.commits = orig.commits

\* The commits the run has written so far.
NewCommits == Len(repo.commits) - Len(orig.commits)

\* The run is past the unification of its configuration, is no dry run and
\* does not fold fixups.
PlainRun ==
    pc # "start" /\ ~loc.config.dry_run /\ ~loc.config.one_fixup_per_commit

Destinations ==
    { loc.hunks_with_commit[k].dest_commit : k \in 1..Len(loc.hunks_with_commit) }

\* C5: with one_fixup_per_commit on a run that is no dry run writes exactly
\* one fixup commit per distinct destination, in whatever order the
\* destinations are queued.
C5_OneFixupPerDestination ==
    FinishedRun /\ loc.config.one_fixup_per_commit
        => NewCommits = Cardinality(Destinations)

\* C5 for queues in which the hunks of a destination are adjacent.
C5_AdjacentFolded ==
    /\ FinishedRun
    /\ loc.config.one_fixup_per_commit
    /\ \A i, j \in 1..Len(loc.hunks_with_commit) :
            i < j /\ loc.hunks_with_commit[i].dest_commit = loc.hunks_with_commit[j].dest_commit
                => loc.hunks_with_commit[i + 1].dest_commit = loc.hunks_with_commit[i].dest_commit
    => NewCommits = Cardinality(Destinations)

\* C6: in a run that is no dry run, whenever HEAD is not the original head
\* PRE_ABSORB_HEAD points at the original head, and it does when the run has
\* gone through its fixup loop and ended.
C6_PreAbsorbHead ==
    ~config.dry_run =>
        /\ repo.head # orig.head => repo.pre_absorb_head = orig.head
        /\ pc \in { "fixups", "report", "rebase" } => repo.pre_absorb_head = orig.head
        /\ FinishedRun /\ loc.head_commit # 0 => repo.pre_absorb_head = orig.head

\* C6 witness: a finished run moved HEAD in a repository whose
\* PRE_ABSORB_HEAD pointed elsewhere before.
C6_Witness ==
    /\ FinishedRun
    /\ repo.head # orig.head
    /\ orig.pre_absorb_head \notin { 0, orig.head }
    /\ repo.pre_absorb_head = orig.head

\* working_stack has returned Ok.
Returned == loc.stack_end_reason # "none"

\* The first-parent chain of the original HEAD, newest first.
Chain == FirstParentChain(orig.commits, orig.head)

\* The limit the repository asks for: absorb.maxStack when positive, else 10.
Limit ==
    IF orig.gitcfg.maxStack.some /\ orig.gitcfg.maxStack.val > 0
    THEN orig.gitcfg.maxStack.val
    ELSE 10

\* The limit applies: no_limit is off and no base is given.
Limited == ~config.no_limit /\ ~config.base.some

\* force_author is on by --force-author, by --force or by absorb.forceAuthor.
ForceAuthorOn ==
    \/ orig.cli.force_author
    \/ orig.cli.force
    \/ orig.gitcfg.forceAuthor = Some(TRUE)

\* The commit is a merge; it is by someone else than the repository's
\* signature; another local branch reaches it.
IsMerge(id) == Len(orig.commits[id].parents) > 1
ByOther(id) ==
    /\ orig.gitcfg.signature.some
    /\ orig.commits[id].author # orig.gitcfg.signature.val
OnOtherBranch(id) ==
    \E b \in DOMAIN orig.branches \ { orig.head_name } :
        id \in AncestorsOf(orig.commits, orig.branches[b])

\* The commits of the stack.
InStack == { loc.stack[k] : k \in 1..Len(loc.stack) }

\* C7 as stated: one reason; at most max_stack commits when the limit
\* applies; and with ANY chain longer than max_stack, exactly the max_stack
\* newest commits and ReachedLimit.
C7_AsStated ==
    Returned =>
        /\ loc.stack_end_reason \in StackEndReason
        /\ Limited => Len(loc.stack) <= Limit
        /\ Limited /\ Len(Chain) > Limit
            => loc.stack = SubSeq(Chain, 1, Limit) /\ loc.stack_end_reason = ReachedLimit

\* C7, amended: working_stack returns one reason; at most max_stack commits
\* when the limit applies; and when the max_stack + 1 newest commits of a
\* longer chain meet no other stop (no merge, no other author unless
\* force_author, not on another branch), exactly the max_stack newest commits
\* and ReachedLimit.
C7_StackLimit ==
    Returned =>
        /\ loc.stack_end_reason \in StackEndReason
        /\ Limited => Len(loc.stack) <= Limit
        /\ /\ Limited
           /\ Len(Chain) > Limit
           /\ \A k \in 1..(Limit + 1) :
                /\ ~IsMerge(Chain[k])
                /\ ForceAuthorOn \/ ~ByOther(Chain[k])
                /\ ~OnOtherBranch(Chain[k])
           => loc.stack = SubSeq(Chain, 1, Limit) /\ loc.stack_end_reason = ReachedLimit

\* C7 witness: with no absorb.maxStack, a chain of more than 10 commits gave
\* a stack of 10 and ReachedLimit.
C7_Witness ==
    /\ Returned
    /\ Limited
    /\ ~orig.gitcfg.maxStack.some
    /\ Len(Chain) > Len(loc.stack)
    /\ Len(loc.stack) = MAX_STACK
    /\ loc.stack_end_reason = ReachedLimit

\* The commits the walk yields: the chain without what the base, or the other
\* branches, reach.
Candidates ==
    SelectSeq(Chain,
        LAMBDA id : IF config.base.some
                    THEN id \notin AncestorsOf(orig.commits, config.base.val)
                    ELSE ~OnOtherBranch(id))

\* The candidate the walk stopped at, when it did not run out of candidates.
Stopper == Candidates[Len(loc.stack) + 1]

\* C8: the stop rules are checked per candidate in the order merge, other
\* author, limit, and the candidate that stops the walk is not pushed.
C8_StopRuleOrder ==
    Returned /\ Len(loc.stack) < Len(Candidates) =>
        /\ loc.stack = SubSeq(Candidates, 1, Len(loc.stack))
        /\ Stopper \notin InStack
        /\ loc.stack_end_reason =
                IF IsMerge(Stopper) THEN ReachedMergeCommit
                ELSE IF ~ForceAuthorOn /\ ByOther(Stopper) THEN ReachedAnotherAuthor
                ELSE ReachedLimit

\* C8 witness: the walk stopped with ReachedMergeCommit at a merge by another
\* author when the stack was full.
C8_Witness ==
    /\ Returned
    /\ Len(loc.stack) < Len(Candidates)
    /\ IsMerge(Stopper)
    /\ ~ForceAuthorOn /\ ByOther(Stopper)
    /\ Limited /\ Len(loc.stack) = Limit
    /\ loc.stack_end_reason = ReachedMergeCommit

\* C9: with force_author off and a signature, every commit of the stack is by
\* the signature's name and email and none is older than an other-author
\* commit of the chain; with force_author on, by the flag, --force or
\* absorb.forceAuthor, the reason is never ReachedAnotherAuthor.
C9_AuthorRule ==
    Returned =>
        /\ ~ForceAuthorOn /\ orig.gitcfg.signature.some =>
            /\ \A id \in InStack :
                /\ orig.commits[id].author.name = orig.gitcfg.signature.val.name
                /\ orig.commits[id].author.email = orig.gitcfg.signature.val.email
            /\ \A i, j \in 1..Len(Chain) :
                i < j /\ ByOther(Chain[i]) => Chain[j] \notin InStack
        /\ ForceAuthorOn => loc.stack_end_reason # ReachedAnotherAuthor

\* C9 witness: with force_author on by --force alone, a finished run wrote a
\* fixup for a commit by another author.
C9_Witness ==
    /\ FinishedRun
    /\ orig.cli.force /\ ~orig.cli.force_author /\ ~orig.gitcfg.forceAuthor.some
    /\ NewCommits > 0
    /\ \E k \in 1..Len(loc.hunks_with_commit) :
            ByOther(loc.hunks_with_commit[k].dest_commit)

\* With a base: the chain down to the first commit the base reaches, that is
\* a merge, or that is by another author with force_author off.
RECURSIVE UpToBase(_)
UpToBase(chain) ==
    IF chain = <<>> THEN <<>>
    ELSE IF \/ Head(chain) \in AncestorsOf(orig.commits, config.base.val)
            \/ IsMerge(Head(chain))
            \/ ~ForceAuthorOn /\ ByOther(Head(chain))
         THEN <<>>
         ELSE << Head(chain) >> \o UpToBase(Tail(chain))

\* C10: without a base the stack has no commit another local branch reaches;
\* with a base it has neither the base nor an ancestor of it, and neither the
\* other branches nor the limit cut it short.
C10_BaseAndBranches ==
    Returned =>
        /\ ~config.base.some => \A id \in InStack : ~OnOtherBranch(id)
        /\ config.base.some =>
            /\ InStack \cap AncestorsOf(orig.commits, config.base.val) = {}
            /\ loc.stack = UpToBase(Chain)

\* C10 witness: with a base, the stack is longer than the limit and holds a
\* commit another local branch points at.
C10_Witness ==
    /\ Returned
    /\ config.base.some
    /\ ~config.no_limit
    /\ Len(loc.stack) > Limit
    /\ \E id \in InStack : OnOtherBranch(id)

\* The walk ran out of candidates: every candidate is in the stack.
Exhausted == Returned /\ Len(loc.stack) = Len(Candidates)

\* The oldest commit of the stack is a root.
StackEndsAtRoot ==
    loc.stack # <<>> /\ orig.commits[loc.stack[Len(loc.stack)]].parents = <<>>

\* The walk ran out because the next commit is hidden.
HiddenExhaustion == Exhausted /\ ~StackEndsAtRoot

\* The first hidden commit: the first parent of the oldest stack commit, HEAD
\* when the stack is empty.
FirstHidden ==
    IF loc.stack = <<>> THEN orig.head
    ELSE orig.commits[loc.stack[Len(loc.stack)]].parents[1]

\* The reason for commits hidden by the base or by the branches.
HiddenReason ==
    IF config.base.some THEN CommitsHiddenByBase ELSE CommitsHiddenByBranches

DiagnosticKind(reason) ==
    CASE reason = ReachedRoot -> "CannotFixUpPastFirstCommit"
      [] reason = ReachedMergeCommit -> "CannotFixUpPastMerge"
      [] reason = ReachedAnotherAuthor -> "WillNotFixUpPastAnotherAuthor"
      [] reason = ReachedLimit -> "WillNotFixUpPastStackLimit"
      [] reason = CommitsHiddenByBase -> "CommitsHiddenByBase"
      [] reason = CommitsHiddenByBranches -> "CommitsHiddenByBranches"

\* The kinds of the announcements made so far, in order.
Kinds == [i \in 1..Len(announced) |-> announced[i].kind]

\* How often a kind was announced.
Times(kind) == Cardinality({ i \in 1..Len(announced) : announced[i].kind = kind })

\* The run has returned Ok (dry run or not).
EndedOk == pc = "done" /\ result = "ok"

\* C12: when the walk runs out at a hidden commit, that commit is examined:
\* a merge gives ReachedMergeCommit, else another author (force_author off)
\* gives ReachedAnotherAuthor, else the reason is CommitsHiddenByBase or
\* CommitsHiddenByBranches; a run with hunks without destination announces
\* the diagnostic of that reason.
C12_FirstHiddenExamined ==
    HiddenExhaustion =>
        LET expected == IF IsMerge(FirstHidden) THEN ReachedMergeCommit
                        ELSE IF ~ForceAuthorOn /\ ByOther(FirstHidden)
                             THEN ReachedAnotherAuthor
                        ELSE HiddenReason
        IN  /\ loc.stack_end_reason = expected
            /\ EndedOk /\ loc.modified_hunks_without_target > 0
                => Times(DiagnosticKind(expected)) = 1

\* C12 witness: the first hidden commit is a merge by another author, the run
\* ended with a hunk without destination and announced CannotFixUpPastMerge.
C12_Witness ==
    /\ HiddenExhaustion
    /\ IsMerge(FirstHidden)
    /\ ~ForceAuthorOn /\ ByOther(FirstHidden)
    /\ EndedOk
    /\ loc.modified_hunks_without_target > 0
    /\ Times("CannotFixUpPastMerge") = 1

\* The run returned the error for rebase options without --and-rebase.
RebaseOptionsError ==
    /\ pc = "done" /\ result = "err"
    /\ config.rebase_options # <<>> /\ ~config.and_rebase

\* The run returned the error for a HEAD that is no branch.
DetachedHeadError ==
    /\ pc = "done" /\ result = "err"
    /\ ~RebaseOptionsError
    /\ orig.head_name = "HEAD" /\ ~loc.config.force_detach

\* HEAD, the references and the commits are as they were before the run.
ReferencesUntouched ==
    /\ repo.head = orig.head
    /\ repo.head_name = orig.head_name
    /\ repo.branches = orig.branches
    /\ repo.pre_absorb_head = orig.pre_absorb_head
    /\ repo.commits = orig.commits

\* C13: a usage error (rebase options without and_rebase, HEAD not a branch
\* without force_detach) is returned before anything is changed: HEAD, the
\* index and the references are as before the run, whatever the
\* configuration.
C13_UsageErrorChangesNothing ==
    RebaseOptionsError \/ DetachedHeadError
        => ReferencesUntouched /\ repo.index = orig.index

\* C13 for the references alone, and for the index after the rebase options
\* error.
C13_UsageErrorKeepsReferences ==
    /\ RebaseOptionsError \/ DetachedHeadError => ReferencesUntouched
    /\ RebaseOptionsError => repo.index = orig.index

\* A run that is no dry run has returned an error.
FailedRun == pc = "done" /\ result = "err" /\ ~config.dry_run

\* The only changes are fixup commits, each on top of the head of its moment
\* with a message and a tree of all the files, HEAD (and its branch) at the
\* last of them, and PRE_ABSORB_HEAD at the original head.
OnlyFixupsAndPreAbsorbHead ==
    /\ SubSeq(repo.commits, 1, Len(orig.commits)) = orig.commits
    /\ \A k \in 1..NewCommits :
        LET id == Len(orig.commits) + k
        IN  /\ repo.commits[id].parents = << IF k = 1 THEN orig.head ELSE id - 1 >>
            /\ repo.commits[id].message.verb \in { "fixup", "squash" }
            /\ DOMAIN repo.commits[id].tree = DOMAIN orig.commits[orig.head].tree
    /\ repo.head = IF NewCommits = 0 THEN orig.head ELSE Len(repo.commits)
    /\ repo.head_name = orig.head_name
    /\ DOMAIN repo.branches = DOMAIN orig.branches
    /\ \A b \in DOMAIN repo.branches :
            repo.branches[b] = IF b = orig.head_name THEN repo.head ELSE orig.branches[b]
    /\ repo.pre_absorb_head \in { orig.pre_absorb_head, orig.head }
    /\ NewCommits > 0 => repo.pre_absorb_head = orig.head
    /\ repo.workdir = orig.workdir

\* C14: when a backend operation fails in a run that is no dry run, the only
\* changes persisted are the fixup commits already created and
\* PRE_ABSORB_HEAD, and the index is as it was before the run, also after
\* auto-staging.
C14_FailureKeepsIndex ==
    FailedRun => OnlyFixupsAndPreAbsorbHead /\ repo.index = orig.index

\* C14 without the index: after a failure the only changes to commits, HEAD
\* and references are the fixup commits already created and PRE_ABSORB_HEAD.
C14_FailureKeepsHistory ==
    FailedRun => OnlyFixupsAndPreAbsorbHead

\* The six diagnostics that name why the stack ended.
Diagnostics ==
    { DiagnosticKind(reason) : reason \in StackEndReason }

\* Some hunk of a Modified patch of the index diff was not queued.
SomeHunkWithoutTarget ==
    \E p \in 1..Len(loc.index) :
        /\ loc.index[p].status = "Modified"
        /\ \E h \in 1..Len(loc.index[p].hunks) : h \notin Destined(p)

\* How many of the six diagnostics were announced.
DiagnosticsAnnounced ==
    Cardinality({ i \in 1..Len(announced) : announced[i].kind \in Diagnostics })

\* C15: a run in which a hunk of a Modified patch found no destination
\* returns Ok and announces FileModificationsWithoutTarget once, directly
\* followed by the one diagnostic of the stack end reason (the limit with
\* max_stack, the base with the base given); a run in which every such hunk
\* found a destination announces neither.
C15_WithoutTargetDiagnostic ==
    pc = "done" =>
        IF SomeHunkWithoutTarget
        THEN /\ result = "ok"
             /\ Times("FileModificationsWithoutTarget") = 1
             /\ DiagnosticsAnnounced = 1
             /\ \E i \in 1..(Len(announced) - 1) :
                    /\ announced[i].kind = "FileModificationsWithoutTarget"
                    /\ announced[i + 1].kind = DiagnosticKind(loc.stack_end_reason)
                    /\ loc.stack_end_reason = ReachedLimit
                            => announced[i + 1].limit = Limit
                    /\ loc.stack_end_reason = CommitsHiddenByBase
                            => announced[i + 1].base = config.base.val
        ELSE /\ Times("FileModificationsWithoutTarget") = 0
             /\ DiagnosticsAnnounced = 0

\* C15 witness: a run that queued one hunk and found no destination for
\* another ended at the stack limit and announced it.
C15_Witness ==
    /\ EndedOk
    /\ SomeHunkWithoutTarget
    /\ loc.hunks_with_commit # <<>>
    /\ loc.stack_end_reason = ReachedLimit
    /\ Times("WillNotFixUpPastStackLimit") = 1

\* The run has parsed the index diff (line 112) and has ended.
EndedWithDiff == pc = "done" /\ loc.head_commit # 0

\* The patches of the index diff that are no modification of a file.
NonModified == { p \in 1..Len(loc.index) : loc.index[p].status # "Modified" }

\* Auto-staging ran: nothing was staged and the repository asks for it.
AutoStaged ==
    /\ orig.index = orig.commits[orig.head].tree
    /\ orig.index # orig.workdir
    /\ orig.gitcfg.autoStageIfNothingStaged = Some(TRUE)

\* C16: with an index diff without a Modified patch the run writes no fixup
\* commit, announces NoFileModifications and nothing else and returns Ok;
\* with some but not all patches non-Modified, NonFileModifications is
\* announced exactly when auto-staging did not run, and before any
\* FileModificationsWithoutTarget.
C16_NonModifiedPatches ==
    EndedWithDiff =>
        /\ Cardinality(NonModified) = Len(loc.index)
            => /\ NewCommits = 0
               /\ announced = << Announce("NoFileModifications") >>
               /\ result = "ok"
        /\ Cardinality(NonModified) \in 1..(Len(loc.index) - 1)
            => /\ Times("NonFileModifications") = IF AutoStaged THEN 0 ELSE 1
               /\ \A i, j \in 1..Len(announced) :
                    /\ announced[i].kind = "NonFileModifications"
                    /\ announced[j].kind = "FileModificationsWithoutTarget"
                    => i < j

\* C16 witness: a staged index with a new file and a modified one, a hunk of
\* which found no destination; both warnings were announced.
C16_Witness ==
    /\ EndedWithDiff
    /\ Cardinality(NonModified) \in 1..(Len(loc.index) - 1)
    /\ ~AutoStaged
    /\ Times("NonFileModifications") = 1
    /\ Times("FileModificationsWithoutTarget") = 1

\* The message the claim gives a fixup commit for this destination: verb,
\* "! ", target and a newline; then a blank line, the body and a newline when
\* a body that is not empty is configured. The target is the summary when
\* the destination has one that no other commit of the stack has and
\* absorb.fixupTargetAlwaysSHA is off, else the full hash.
ExpectedMessage(dest) ==
    LET summary == orig.commits[dest].summary
        same == { k \in 1..Len(loc.stack) : orig.commits[loc.stack[k]].summary = summary }
        by_summary == /\ summary # ""
                      /\ Cardinality(same) = 1
                      /\ orig.gitcfg.fixupTargetAlwaysSHA \in { None, Some(FALSE) }
    IN  << IF config.squash THEN "squash" ELSE "fixup", "! ",
           IF by_summary THEN summary ELSE id_to_string(dest), "\n" >>
        \o (IF config.message.some /\ config.message.val # ""
            THEN << "\n", config.message.val, "\n" >>
            ELSE <<>>)

RebaseOnto ==
    LET oldest == orig.commits[loc.stack[Len(loc.stack)]]
    IN  IF oldest.parents = <<>> THEN "--root" ELSE id_to_string(oldest.parents[1])

\* The commits `git rebase X` replays: those HEAD reaches and X does not.
RebasedRange ==
    LET oldest == orig.commits[loc.stack[Len(loc.stack)]]
    IN  AncestorsOf(repo.commits, repo.head)
        \ (IF oldest.parents = <<>> THEN {}
           ELSE AncestorsOf(repo.commits, oldest.parents[1]))

\* The announcements of HowToSquash.
HowToSquash == { i \in 1..Len(announced) : announced[i].kind = "HowToSquash" }

C18_SpawnedWithOptions ==
    /\ FinishedRun
    /\ loc.hunks_with_commit # <<>>
    /\ loc.spawned.some
    /\ Len(loc.spawned.val) = 6

\* C19: every run that is no dry run and returns Ok, whatever it found,
\* leaves PRE_ABSORB_HEAD at the commit that was HEAD when it started.
C19_PreAbsorbHeadAlways ==
    EndedOk /\ ~config.dry_run => repo.pre_absorb_head = orig.head

\* C19 for the runs that got past the staging check of lines 45-65.
C19_PreAbsorbHeadPastStaging ==
    EndedOk /\ ~config.dry_run /\ loc.head_commit # 0
        => repo.pre_absorb_head = orig.head

\* This step is the write of auto-staging: nothing was staged, the
\* repository asks for auto-staging, and the index takes the working tree.
AutoStageWrite ==
    /\ pc = "index"
    /\ AutoStaged
    /\ repo.index = orig.index
    /\ repo'.index = repo.workdir

\* This step is the reset of an auto-staged index to the tree of HEAD.
ResetWrite ==
    /\ pc = "fixups"
    /\ AutoStaged
    /\ repo'.index = repo.commits[repo.head].tree

C20_ResetWithoutFixup ==
    /\ FinishedRun
    /\ AutoStaged
    /\ NewCommits = 0
    /\ loc.modified_hunks_without_target > 0
    /\ repo.index = orig.index

\* The 'patch loop is over: every hunk of the index diff was looked at.
HunksLookedAt == loc.head_commit # 0 /\ loc.patch_i > Len(loc.index)

RECURSIVE OffsetsBefore(_, _)
\* The lines the hunks before hunk h of patch p add to the file.
OffsetsBefore(p, h) ==
    IF h = 1 THEN 0
    ELSE OffsetsBefore(p, h - 1)
         + Len(loc.index[p].hunks[h - 1].added.lines)
         - Len(loc.index[p].hunks[h - 1].removed.lines)

\* Hunk h of patch p as if it were the only hunk of the index.
Isolated(p, h) ==
    [loc.index[p].hunks[h] EXCEPT !.added.start = @ - OffsetsBefore(p, h)]

\* The patch of the k-th stack commit under a path, in a set.
Under(k, path) ==
    LET diff == backend.commit_diff[loc.stack[k]]
    IN  { diff[i] : i \in { j \in 1..Len(diff) : diff[j].new_path = path } }

RECURSIVE Tracked(_, _, _)
\* What the scan of the stack tracks for hunk h of patch p when it comes to
\* the k-th stack commit, having passed the newer ones: path and hunk, or
\* that the scan ended at a newer commit.
Tracked(p, h, k) ==
    IF k = 1 THEN [ended |-> FALSE, path |-> loc.index[p].new_path, hunk |-> Isolated(p, h)]
    ELSE LET t == Tracked(p, h, k - 1)
         IN  IF t.ended THEN t
             ELSE IF Under(k - 1, t.path) = {} THEN t
             ELSE LET patch == CHOOSE x \in Under(k - 1, t.path) : TRUE
                      through == commute_diff_before(t.hunk, patch.hunks)
                  IN  IF config.whole_file \/ patch.status = "Added" \/ ~through.some
                      THEN [ended |-> TRUE]
                      ELSE [ended |-> FALSE, path |-> patch.old_path, hunk |-> through.val]

\* The k-th stack commit is where the scan for hunk h of patch p ends.
EndsAt(p, h, k) ==
    /\ ~Tracked(p, h, k).ended
    /\ Tracked(p, h, k + 1).ended

\* The Modified hunks of the index diff, as pairs of patch and hunk.
ModifiedHunks ==
    { ph \in (1..Len(loc.index)) \X (1..MaxHunks + 1) :
        /\ loc.index[ph[1]].status = "Modified"
        /\ ph[2] <= Len(loc.index[ph[1]].hunks) }

\* The queue entries for hunk h of patch p.
Queued(p, h) ==
    { q \in 1..Len(loc.hunks_with_commit) :
        /\ loc.hunks_with_commit[q].index_patch = p
        /\ loc.hunks_with_commit[q].index_hunk = h }

\* C21: the destination of a hunk of a Modified patch is the newest stack
\* commit whose patch under the tracked path exists with whole_file on, or
\* is an addition, or has hunks the tracked hunk does not commute through;
\* commits without a patch under the tracked path are skipped, a commit the
\* hunk commutes through hands on its old path and the commuted hunk. A
\* hunk for which no commit qualifies is counted and not queued.
C21_Destination ==
    HunksLookedAt =>
        /\ \A ph \in ModifiedHunks :
            LET ends == { k \in 1..Len(loc.stack) : EndsAt(ph[1], ph[2], k) }
            IN  IF ends = {}
                THEN Queued(ph[1], ph[2]) = {}
                ELSE /\ Cardinality(Queued(ph[1], ph[2])) = 1
                     /\ \A q \in Queued(ph[1], ph[2]) : \A k \in ends :
                            loc.hunks_with_commit[q].dest_commit = loc.stack[k]
        /\ loc.modified_hunks_without_target =
                Cardinality({ ph \in ModifiedHunks :
                    \A k \in 1..Len(loc.stack) : ~EndsAt(ph[1], ph[2], k) })
        /\ Len(loc.hunks_with_commit) + loc.modified_hunks_without_target
                = Cardinality(ModifiedHunks)

\* Commit id renamed the file that is now at this path.
RenamedTo(id, path) ==
    \E i \in 1..Len(backend.commit_diff[id]) :
        /\ backend.commit_diff[id][i].new_path = path
        /\ backend.commit_diff[id][i].old_path # path

\* C21 witness: a hunk commuted through the commit that renamed its file and
\* found the commit that added the file under its old name; another hunk of
\* the same file stopped at the renaming commit.
C21_Witness ==
    /\ HunksLookedAt
    /\ ~config.whole_file
    /\ \E q1, q2 \in 1..Len(loc.hunks_with_commit) :
        /\ loc.hunks_with_commit[q1].dest_commit = 1
        /\ loc.hunks_with_commit[q2].dest_commit = 2
        /\ RenamedTo(2, loc.index[loc.hunks_with_commit[q1].index_patch].new_path)

\* C21 witness of a hunk without destination: it commuted through the
\* renaming commit and the stack ended there.
C21_NoDestination ==
    /\ HunksLookedAt
    /\ Len(loc.stack) = 2
    /\ RenamedTo(loc.stack[2], "f1")
    /\ loc.modified_hunks_without_target > 0
    /\ loc.hunks_with_commit # <<>>

\* The fixup target and the stats of the announcements of these kinds, in
\* order.
RECURSIVE FixupsAnnounced(_, _)
FixupsAnnounced(anns, kind) ==
    IF anns = <<>> THEN <<>>
    ELSE (IF anns[1].kind = kind
          THEN << [fixup |-> anns[1].fixup, stats |-> anns[1].stats] >>
          ELSE <<>>) \o FixupsAnnounced(Tail(anns), kind)

\* The fixup loop is over without an error.
FixupsDone ==
    /\ loc.head_commit # 0
    /\ pc \in { "fixups", "report", "rebase", "done" }
    /\ loc.fix_i > Len(loc.hunks_with_commit)
    /\ result # "err"

\* What the fixup loop of this run announces with the given dry_run.
LoopAnnounces(dry_run) ==
    fixup_loop(orig, loc, 1, orig.commits[orig.head].tree,
               orig.commits[orig.head].tree, dry_run)

\* C29: a dry run announces one WouldHaveCommitted for each Committed the
\* same run without dry_run announces, in the same order, with the same fixup
\* target and the same change stats.
C29_DryRunAnnouncesTheSame ==
    FixupsDone /\ loc.config.dry_run =>
        FixupsAnnounced(announced, "WouldHaveCommitted") = LoopAnnounces(FALSE)

\* The announcements of a run are those of the loop with the run's dry_run.
C29_LoopAnnouncements ==
    FixupsDone =>
        FixupsAnnounced(announced, IF loc.config.dry_run THEN "WouldHaveCommitted"
                                   ELSE "Committed")
            = LoopAnnounces(loc.config.dry_run)

\* The dry run announces the same number of fixups with the same targets, in
\* the same order.
C29_SameTargets ==
    FixupsDone /\ loc.config.dry_run =>
        LET dry == FixupsAnnounced(announced, "WouldHaveCommitted")
            real == LoopAnnounces(FALSE)
        IN  /\ Len(dry) = Len(real)
            /\ \A i \in 1..Len(dry) : dry[i].fixup = real[i].fixup

\* working_stack has returned its stack and reason.
StackReturned == loc.stack_end_reason # "none"

\* The stack is a first-parent chain that starts at HEAD: no entry has two
\* parents and the first parent of each entry is the next entry.
LinearFromHead(stack) ==
    /\ stack # <<>> => stack[1] = orig.head
    /\ \A i \in 1..Len(stack) : Len(orig.commits[stack[i]].parents) <= 1
    /\ \A i \in 1..(Len(stack) - 1) :
            /\ orig.commits[stack[i]].parents # <<>>
            /\ orig.commits[stack[i]].parents[1] = stack[i + 1]

\* C30: the stack working_stack returns is a linear first-parent chain from
\* HEAD; so the stack is not empty when a hunk was queued, the oldest stack
\* commit has at most one parent where the rebase command asserts it, and a
\* base was given whenever the reason is CommitsHiddenByBase.
C30_LinearStack ==
    StackReturned =>
        /\ LinearFromHead(loc.stack)
        /\ loc.hunks_with_commit # <<>> => loc.stack # <<>>
        /\ pc = "rebase" /\ loc.hunks_with_commit # <<>> =>
                Len(repo.commits[loc.stack[Len(loc.stack)]].parents) <= 1
        /\ loc.stack_end_reason = CommitsHiddenByBase => loc.config.base.some

\* C30 witness: a run with a stack of two commits and a queued hunk reached
\* the rebase command.
C30_Witness ==
    /\ StackReturned
    /\ Len(loc.stack) >= 2
    /\ loc.hunks_with_commit # <<>>
    /\ pc = "rebase"

\* C30 witnesses: the stack ended below a merge commit, and the reason
\* CommitsHiddenByBase was announced.
C30_StackBelowMerge ==
    /\ StackReturned
    /\ loc.stack # <<>>
    /\ loc.stack_end_reason = ReachedMergeCommit
    /\ Len(orig.commits[orig.commits[loc.stack[Len(loc.stack)]].parents[1]].parents) > 1

C30_HiddenByBaseAnnounced ==
    /\ \E i \in 1..Len(announced) : announced[i].kind = "CommitsHiddenByBase"
    /\ loc.config.base.some

\* ------------------------------------------------------- commute, on its own

\* The lines of the files and hunks commute is tried on.
CommuteLines == { Line(97), Line(98) }

\* The edits of a file of len lines: at most MaxLen lines removed, at most
\* MaxLen lines added, not both none.
CommuteEdits(len) ==
    { e \in [pos : 1..(len + 1), nrem : 0..MaxLen, add : SeqsUpTo(CommuteLines, MaxLen)] :
        /\ e.pos + e.nrem - 1 <= len
        /\ e.nrem > 0 \/ e.add # <<>> }

\* The hunk a diff of the file reports for one edit.
HunkOf(file, e) == DiffHunks(file, << e >>, 1, 0)[1]

\* A file, a hunk that applies to it, and a hunk that applies to the result.
InitCommute ==
    /\ \E file \in SeqsUpTo(CommuteLines, MaxLen) :
       \E e1 \in CommuteEdits(Len(file)) :
       \E e2 \in CommuteEdits(Len(Edited(file, << e1 >>))) :
            /\ SubSeq(file, e1.pos, e1.pos + e1.nrem - 1) # e1.add
            /\ LET mid == Edited(file, << e1 >>)
               IN  /\ SubSeq(mid, e2.pos, e2.pos + e2.nrem - 1) # e2.add
                   /\ pf = [op |-> "input", file |-> file,
                            first |-> HunkOf(file, e1), second |-> HunkOf(mid, e2)]
    /\ repo = <<>> /\ config = <<>> /\ backend = <<>> /\ orig = <<>>
    /\ pc = "commute" /\ walk = <<>> /\ loc = <<>> /\ announced = <<>>
    /\ result = "running"

\* commute(first, second) is called.
Commute ==
    /\ pf.op = "input"
    /\ pf' = [op |-> "commuted", file |-> pf.file, first |-> pf.first,
              second |-> pf.second, out |-> commute(pf.first, pf.second)]
    /\ UNCHANGED << repo, config, backend, orig, pc, walk, loc, announced, result >>

\* The tree rewriter applies first then second, and the commuted pair in its
\* order.
ApplyBoth ==
    /\ pf.op = "commuted"
    /\ LET blob == Concat(pf.file)
       IN  pf' = [op |-> "applied", file |-> pf.file, first |-> pf.first,
                  second |-> pf.second, out |-> pf.out,
                  direct |-> apply_hunk_to_blob(apply_hunk_to_blob(blob, pf.first),
                                                pf.second),
                  swapped |-> IF pf.out.some
                              THEN apply_hunk_to_blob(
                                       apply_hunk_to_blob(blob, pf.out.val[1]),
                                       pf.out.val[2])
                              ELSE <<>>]
    /\ UNCHANGED << repo, config, backend, orig, pc, walk, loc, announced, result >>

NextCommute == Commute \/ ApplyBoth

SpecCommute == InitCommute /\ [][NextCommute]_vars

\* The branch of commute that answered.
CommuteCase(first, second) ==
    IF anchors(first)[4] <= anchors(second)[1] THEN "first_above"
    ELSE IF anchors(second)[2] <= anchors(first)[3] THEN "second_above"
    ELSE "overlap"

\* C2: whenever commute(first, second) returns a pair, applying the pair in
\* its order gives the content that first and then second give.
C2_CommutePreservesContent ==
    pf.op = "applied" /\ pf.out.some => pf.swapped = pf.direct

\* C2, the two ordered cases alone.
C2_OrderedPreserveContent ==
    pf.op = "applied" /\ pf.out.some /\ CommuteCase(pf.first, pf.second) # "overlap"
        => pf.swapped = pf.direct

\* ------------------------------------------------- hunks, on their own

\* The lines before which a hunk of the scenarios may start.
HunkPos == 3

\* The hunk a diff reports for a change at line pos of the old file that
\* removes and adds these lines, the hunks before it in the diff having
\* added offset lines: a side without lines starts at the line before.
DiffHunk(pos, removed, added, offset) ==
    Hunk(Block((IF added # <<>> THEN pos ELSE pos - 1) + offset, added),
         Block(IF removed # <<>> THEN pos ELSE pos - 1, removed))

\* The lines of one side of a hunk: one line repeated, or a line followed by
\* another line repeated.
HunkSides ==
    { [i \in 1..n |-> Line(97)] : n \in 0..MaxLen }
    \cup { [i \in 1..n |-> Line(98)] : n \in 1..MaxLen }
    \cup { [i \in 1..n |-> IF i = 1 THEN Line(97) ELSE Line(98)] : n \in 2..MaxLen }

\* The hunks of the scenarios: the first hunk of a diff (offset 0), a hunk
\* after an insertion before line 1 (offset 1, line 1 unchanged) and a hunk
\* after the removal of line 1 (offset -1, line 2 unchanged).
HunkShapes ==
    { s \in [pos : 1..HunkPos, offset : -1..1, removed : HunkSides, added : HunkSides] :
        /\ s.removed # <<>> \/ s.added # <<>>
        /\ s.offset = 1 => s.pos >= 2
        /\ s.offset = -1 => s.pos >= 3 }

\* Hunks at the end of a file without a final newline ('<' and '>' lines of
\* the patch): the sides that have lines have no trailing newline.
NoNewlineHunks ==
    { [h EXCEPT !.added.trailing_newline = (h.added.lines = <<>>),
                !.removed.trailing_newline = (h.removed.lines = <<>>)] :
        h \in { DiffHunk(HunkPos, s.removed, s.added, 0) :
                    s \in { t \in HunkShapes : Len(t.removed) <= 1 /\ Len(t.added) <= 1
                                                /\ t.pos = HunkPos /\ t.offset = 0 } } }

HunkValues ==
    { DiffHunk(s.pos, s.removed, s.added, s.offset) : s \in HunkShapes }
    \cup NoNewlineHunks

\* The variables of the orchestrator while the hunk functions are called.
NoRun ==
    /\ repo = <<>> /\ config = <<>> /\ backend = <<>> /\ orig = <<>>
    /\ pc = "hunks_alone" /\ walk = <<>> /\ loc = <<>> /\ announced = <<>>
    /\ result = "running"

\* Two hunks for commute.
InitPair ==
    /\ \E first \in HunkValues, second \in HunkValues :
            pf = [op |-> "pair", first |-> first, second |-> second]
    /\ NoRun

\* commute is called on the pair, in both orders.
CallCommute ==
    /\ pf.op = "pair"
    /\ pf' = [op |-> "commuted_pair", first |-> pf.first, second |-> pf.second,
              out |-> commute(pf.first, pf.second),
              back |-> commute(pf.second, pf.first)]
    /\ UNCHANGED << repo, config, backend, orig, pc, walk, loc, announced, result >>

\* The lines of one side of a hunk that follows a patch of the scenarios: the
\* line the patch adds, repeated, or another line.
AfterSides == SeqsUpTo({ NewLine }, MaxLen) \cup { << Line(97) >> }

\* The hunks a later diff reports for a file of len lines.
AfterHunks(len) ==
    { DiffHunk(pos, removed, added, offset) :
        pos \in 1..(len + 1), offset \in -1..1,
        removed \in AfterSides, added \in AfterSides } \
    { h \in { DiffHunk(pos, removed, added, offset) :
                pos \in 1..(len + 1), offset \in -1..1,
                removed \in AfterSides, added \in AfterSides } :
        \/ h.removed.lines = <<>> /\ h.added.lines = <<>>
        \/ h.added.start < 0
        \/ h.added.start = 0 /\ h.added.lines # <<>> }

\* The hunks of a commit's patch of one file, and a hunk of a later diff
\* of that file, for commute_diff_before.
InitPatch ==
    /\ \E edits \in EditSeqs(1, FileLen, MaxHunks) :
       \E after \in AfterHunks(Len(Edited(RootLines(FileLen), edits))) :
            pf = [op |-> "patch", after |-> after,
                  before |-> DiffHunks(RootLines(FileLen), edits, 1, 0)]
    /\ NoRun

\* commute_diff_before is called on the hunk and the patch.
CallCommuteDiffBefore ==
    /\ pf.op = "patch"
    /\ pf' = [op |-> "commuted_patch", after |-> pf.after, before |-> pf.before,
              out |-> commute_diff_before(pf.after, pf.before)]
    /\ UNCHANGED << repo, config, backend, orig, pc, walk, loc, announced, result >>

\* The blobs of the scenarios: the first lines of a file, the last one with
\* or without its newline.
Blobs ==
    { Concat(RootLines(n)) : n \in 0..FileLen }
    \cup { SubSeq(Concat(RootLines(n)), 1, 2 * n - 1) : n \in 1..FileLen }

\* The trees of the scenarios that hold the blob at path: next to another
\* file, and in a directory next to another file and under another entry.
TreesWith(blob) ==
    { [path |-> << "f1" >>,
       base |-> [n \in { "f1", "f2" } |->
                    IF n = "f1" THEN BlobEntry("100755", blob)
                    ELSE BlobEntry("100644", Line(120))]],
      [path |-> << "d", "f1" >>,
       base |-> [n \in { "d", "f2" } |->
                    IF n = "d"
                    THEN TreeEntry("040000",
                            [m \in { "f1", "f3" } |->
                                IF m = "f1" THEN BlobEntry("100644", blob)
                                ELSE BlobEntry("100755", Line(121))])
                    ELSE BlobEntry("100644", Line(120))]],
      [path |-> << "f2", "f1" >>,
       base |-> [n \in { "f1", "f2" } |-> BlobEntry("100644", blob)]],
      [path |-> << "f3" >>,
       base |-> [n \in { "f1", "f2" } |-> BlobEntry("100644", blob)]] }

\* A tree, a path and a hunk for apply_hunk_to_tree.
InitApply ==
    /\ \E blob \in Blobs, hunk \in HunkValues :
       \E t \in TreesWith(blob) :
            pf = [op |-> "apply", base |-> t.base, path |-> t.path, hunk |-> hunk]
    /\ NoRun

\* apply_hunk_to_tree is called.
CallApplyHunkToTree ==
    /\ pf.op = "apply"
    /\ pf' = [op |-> "applied", base |-> pf.base, path |-> pf.path, hunk |-> pf.hunk,
              out |-> apply_hunk_to_tree_entries(pf.base, pf.hunk, pf.path)]
    /\ UNCHANGED << repo, config, backend, orig, pc, walk, loc, announced, result >>

\* The hunk without lines.
EmptyHunk == Hunk(Block(0, <<>>), Block(0, <<>>))

\* The hunks of a commit's patch that follow an insertion of MaxLen lines
\* before line 1: they change line 2.
HunksAfterInsertion ==
    { DiffHunk(2, removed, added, MaxLen) :
        removed \in HunkSides \ { <<>> }, added \in HunkSides \ { <<>> } }

\* The hunks commute returns as the moved copy of such a hunk, for a later
\* hunk above it.
MovedHunks ==
    { commute(p[1], p[2]).val[2] :
        p \in { q \in HunksAfterInsertion \X HunkValues :
                    /\ commute(q[1], q[2]).some
                    /\ commute(q[1], q[2]).val[1] = q[2] } }

\* A hunk for anchors: one a diff reports, the hunk without lines, or one
\* commute returned.
InitHunk ==
    /\ \E hunk \in HunkValues \cup { EmptyHunk } \cup MovedHunks :
            pf = [op |-> "hunk", hunk |-> hunk]
    /\ NoRun

\* anchors is called, and Hunk::anchors.
CallAnchors ==
    /\ pf.op = "hunk"
    /\ pf' = [op |-> "anchored", hunk |-> pf.hunk,
              out |-> anchors(pf.hunk), owned |-> HunkAnchors(pf.hunk)]
    /\ UNCHANGED << repo, config, backend, orig, pc, walk, loc, announced, result >>

InitHunks == InitPair \/ InitPatch \/ InitApply \/ InitHunk

NextHunks == CallCommute \/ CallCommuteDiffBefore \/ CallApplyHunkToTree \/ CallAnchors

SpecHunks == InitHunks /\ [][NextHunks]_vars

\* The elements of a sequence.
Range(s) == { s[i] : i \in 1..Len(s) }

\* commute was called on a pair of hunks.
Commuted == pf.op = "commuted_pair"

\* A hunk with both starts moved by a number of lines.
Moved(h, by) == [h EXCEPT !.removed.start = @ + by, !.added.start = @ + by]

\* The lines a hunk adds to the file.
Grows(h) == Len(h.added.lines) - Len(h.removed.lines)

\* What commute returns when it treats first as above second, when it treats
\* second as above first, and when the hunks overlap.
AsFirstAbove == Some(<< Moved(pf.second, -Grows(pf.first)), pf.first >>)
AsSecondAbove == Some(<< pf.second, Moved(pf.first, Grows(pf.second)) >>)
AsOverlap ==
    IF \/ /\ pf.first.added.lines = <<>> /\ pf.second.added.lines = <<>>
          /\ \A x \in Range(pf.first.removed.lines) \cup Range(pf.second.removed.lines) :
             \A y \in Range(pf.first.removed.lines) \cup Range(pf.second.removed.lines) : x = y
       \/ /\ pf.first.removed.lines = <<>> /\ pf.second.removed.lines = <<>>
          /\ \A x \in Range(pf.first.added.lines) \cup Range(pf.second.added.lines) :
             \A y \in Range(pf.first.added.lines) \cup Range(pf.second.added.lines) : x = y
    THEN Some(<< pf.second, pf.first >>)
    ELSE None

\* The result for an order that is decided by two conditions.
Decided(first_above, second_above) ==
    IF first_above THEN AsFirstAbove
    ELSE IF second_above THEN AsSecondAbove
    ELSE AsOverlap

\* C22 as stated: first is treated as above second exactly when the next
\* unchanged line of first on the added side is no later than the previous
\* unchanged line of second on the added side (anchors().3 and
\* anchors().2); otherwise second is treated as above first when the
\* symmetric relation holds (read on the removed side of both, or as the
\* code has it).
C22_AsStated ==
    Commuted =>
        LET a1 == HunkAnchors(pf.first)
            a2 == HunkAnchors(pf.second)
        IN  pf.out \in { Decided(a1[4] <= a2[3], a2[2] <= a1[1]),
                         Decided(a1[4] <= a2[3], a2[2] <= a1[3]) }

\* C22, amended: first is treated as above second exactly when the next
\* unchanged line of first on the added side is no later than the previous
\* unchanged line of second on the removed side (anchors().3 and
\* anchors().0); otherwise second is treated as above first when the next
\* unchanged line of second on the removed side is no later than the
\* previous unchanged line of first on the added side (anchors().1 and
\* anchors().2).
C22_ContentOrder ==
    Commuted =>
        LET a1 == HunkAnchors(pf.first)
            a2 == HunkAnchors(pf.second)
        IN  pf.out = Decided(a1[4] <= a2[1], a2[2] <= a1[3])

\* C22 witness: second is a later hunk of its diff and replaces lines, so
\* its two upper anchors differ; first lies above it by the removed side of
\* second only, and commute moved second up.
C22_Witness ==
    /\ Commuted
    /\ HunkAnchors(pf.second)[1] # HunkAnchors(pf.second)[3]
    /\ HunkAnchors(pf.first)[4] <= HunkAnchors(pf.second)[1]
    /\ HunkAnchors(pf.first)[4] > HunkAnchors(pf.second)[3]
    /\ Grows(pf.first) # 0
    /\ pf.out = AsFirstAbove

\* The content order commute finds, if any.
FirstIsAbove == HunkAnchors(pf.first)[4] <= HunkAnchors(pf.second)[1]
SecondIsAbove == ~FirstIsAbove /\ HunkAnchors(pf.second)[2] <= HunkAnchors(pf.first)[3]

\* Hunk h is hunk g with both starts moved by a number of lines and nothing
\* else changed.
SameButMoved(h, g, by) ==
    /\ h.removed.start = g.removed.start + by
    /\ h.added.start = g.added.start + by
    /\ h.removed.lines = g.removed.lines
    /\ h.added.lines = g.added.lines
    /\ h.removed.trailing_newline = g.removed.trailing_newline
    /\ h.added.trailing_newline = g.added.trailing_newline

\* C23: with a content order the result is the pair (from second, from
\* first); the hunk above is unchanged, the hunk below has both starts moved
\* by the lines the hunk above adds, down (subtracted) when first is above
\* and up (added) when second is above; lines and trailing-newline flags
\* stay, and no start goes below zero.
C23_ShiftBelow ==
    Commuted =>
        /\ FirstIsAbove =>
            /\ pf.out.some
            /\ pf.out.val[2] = pf.first
            /\ SameButMoved(pf.out.val[1], pf.second, -Grows(pf.first))
        /\ SecondIsAbove =>
            /\ pf.out.some
            /\ pf.out.val[1] = pf.second
            /\ SameButMoved(pf.out.val[2], pf.first, Grows(pf.second))

\* The starts of a hunk's sides that have lines are line numbers.
StartsAreLines(h) ==
    /\ h.removed.lines # <<>> => h.removed.start >= 1
    /\ h.added.lines # <<>> => h.added.start >= 1

\* C23, the hunks returned: the sides that have lines still start at a line.
C23_StartsStayLines ==
    Commuted /\ pf.out.some =>
        StartsAreLines(pf.out.val[1]) /\ StartsAreLines(pf.out.val[2])

\* C23 witness: second is above first, adds more lines than it removes, and
\* first, a hunk without final newline, came back moved down.
C23_Witness ==
    /\ Commuted
    /\ SecondIsAbove
    /\ Grows(pf.second) > 0
    /\ ~pf.first.added.trailing_newline
    /\ pf.out.some
    /\ pf.out.val[2].added.start = pf.first.added.start + Grows(pf.second)
    /\ ~pf.out.val[2].added.trailing_newline

\* Neither content order holds: the hunks overlap.
Overlapping == ~FirstIsAbove /\ ~SecondIsAbove

\* At most one line occurs among these lines.
OneLineRepeated(lines) == Cardinality(Range(lines)) <= 1

\* C24: for overlapping hunks commute returns (second, first), both
\* unchanged, exactly when both add nothing and all lines they remove are
\* equal, or both remove nothing and all lines they add are equal; in every
\* other overlapping case it returns None.
C24_Overlap ==
    Commuted /\ Overlapping =>
        IF \/ /\ pf.first.added.lines = <<>>
              /\ pf.second.added.lines = <<>>
              /\ OneLineRepeated(pf.first.removed.lines \o pf.second.removed.lines)
           \/ /\ pf.first.removed.lines = <<>>
              /\ pf.second.removed.lines = <<>>
              /\ OneLineRepeated(pf.first.added.lines \o pf.second.added.lines)
        THEN pf.out.some /\ pf.out.val[1] = pf.second /\ pf.out.val[2] = pf.first
        ELSE ~pf.out.some

\* C24 witness: two overlapping insertions of the same line, of different
\* lengths, came back swapped and unchanged.
C24_Witness ==
    /\ Commuted
    /\ Overlapping
    /\ pf.first.removed.lines = <<>> /\ pf.second.removed.lines = <<>>
    /\ Len(pf.first.added.lines) = 2 /\ Len(pf.second.added.lines) = 1
    /\ pf.out = Some(<< pf.second, pf.first >>)

\* C24 witness of refusal: two overlapping insertions of different lines.
C24_Refused ==
    /\ Commuted
    /\ Overlapping
    /\ pf.first.removed.lines = <<>> /\ pf.second.removed.lines = <<>>
    /\ ~OneLineRepeated(pf.first.added.lines \o pf.second.added.lines)
    /\ ~pf.out.some

\* The repeated-line case: both hunks only remove, or both only add, one
\* repeated line.
RepeatedLines ==
    \/ /\ pf.first.added.lines = <<>> /\ pf.second.added.lines = <<>>
       /\ OneLineRepeated(pf.first.removed.lines \o pf.second.removed.lines)
    \/ /\ pf.first.removed.lines = <<>> /\ pf.second.removed.lines = <<>>
       /\ OneLineRepeated(pf.first.added.lines \o pf.second.added.lines)

\* C25: outside the repeated-line case commute(a, b) and commute(b, a) both
\* succeed or both fail.
C25_BothOrders ==
    Commuted /\ ~RepeatedLines => (pf.out.some <=> pf.back.some)

RECURSIVE Visits(_, _, _)
\* The running hunk once the last k hunks of before were visited, the last
\* one first: each step keeps the first component of commute(earlier, running).
Visits(after, before, k) ==
    IF k = 0 THEN Some(after)
    ELSE LET running == Visits(after, before, k - 1)
             earlier == before[Len(before) - k + 1]
         IN  IF ~running.some THEN None
             ELSE IF commute(earlier, running.val).some
                  THEN Some(commute(earlier, running.val).val[1])
                  ELSE None

RECURSIVE SumOffsets(_)
\* The sum of the changed offsets of the hunks.
SumOffsets(hunks) ==
    IF hunks = <<>> THEN 0
    ELSE changed_offset(hunks[1]) + SumOffsets(Tail(hunks))

\* The hunk lies below every hunk of the patch: each hunk's added side ends
\* at or before the line above the hunk's removed side.
BelowAll(after, before) ==
    \A i \in 1..Len(before) : anchors(before[i])[4] <= anchors(after)[1]

CommutedPatch == pf.op = "commuted_patch"

\* C26: commute_diff_before visits the hunks of before from last to first,
\* keeping the first component of commute(earlier, running), and returns None
\* when a step fails; with empty before it returns after unchanged, and for
\* an after below every hunk of before it returns after with both starts
\* reduced by the sum of the changed offsets of before.
C26_CommuteDiffBefore ==
    CommutedPatch =>
        /\ pf.out = Visits(pf.after, pf.before, Len(pf.before))
        /\ pf.before = <<>> => pf.out = Some(pf.after)
        /\ BelowAll(pf.after, pf.before) =>
                pf.out = Some(shift_both_blocks(pf.after, -SumOffsets(pf.before)))

\* C26 witness: a hunk below a patch of two hunks that change the number of
\* lines came back moved.
C26_Witness ==
    /\ CommutedPatch
    /\ Len(pf.before) >= 2
    /\ changed_offset(pf.before[1]) # 0
    /\ SumOffsets(pf.before) # 0
    /\ BelowAll(pf.after, pf.before)
    /\ pf.out.some
    /\ pf.out.val # pf.after

\* C26 witness of failure: a step of the fold failed on a patch of two hunks.
C26_StepFails ==
    /\ CommutedPatch
    /\ Len(pf.before) >= 2
    /\ ~pf.out.some

\* P + A + S for the blob and the hunk: the lines up to prev_removed, the
\* added lines, and the lines left after |removed| more lines.
Patched(content, hunk) ==
    LET lines == LinesOf(content)
        prev_removed == anchors(hunk)[1]
        kept == IF prev_removed < Len(lines) THEN prev_removed ELSE Len(lines)
    IN  Concat(SubSeq(lines, 1, kept))
            \o Concat(hunk.added.lines)
            \o Concat(SubSeq(lines, kept + Len(hunk.removed.lines) + 1, Len(lines)))

\* The blob entry at the path of the tree (the paths of the scenarios have
\* one or two names).
EntryAt(tree, path) ==
    IF Len(path) = 1 THEN tree[path[1]] ELSE tree[path[1]].entries[path[2]]

\* The trees are equal except for the content of the blob at the path.
SameButContentAt(tree, base, path) ==
    IF Len(path) = 1
    THEN /\ DOMAIN tree = DOMAIN base
         /\ \A n \in DOMAIN base \ { path[1] } : tree[n] = base[n]
         /\ tree[path[1]].kind = "blob"
         /\ tree[path[1]].mode = base[path[1]].mode
    ELSE /\ DOMAIN tree = DOMAIN base
         /\ \A n \in DOMAIN base \ { path[1] } : tree[n] = base[n]
         /\ tree[path[1]].kind = "tree"
         /\ tree[path[1]].mode = base[path[1]].mode
         /\ DOMAIN tree[path[1]].entries = DOMAIN base[path[1]].entries
         /\ \A m \in DOMAIN base[path[1]].entries \ { path[2] } :
                tree[path[1]].entries[m] = base[path[1]].entries[m]
         /\ tree[path[1]].entries[path[2]].kind = "blob"
         /\ tree[path[1]].entries[path[2]].mode = base[path[1]].entries[path[2]].mode

Applied == pf.op = "applied"

\* C27: the tree apply_hunk_to_tree returns equals the base tree except that
\* the blob at path has content P + A + S (P the old blob up to the end of
\* line prev_removed, A the added lines, S the old blob after |removed| more
\* line terminators); the other entries and the mode of the blob are
\* unchanged.
C27_ApplyHunkToTree ==
    Applied /\ pf.out.some =>
        /\ SameButContentAt(pf.out.val, pf.base, pf.path)
        /\ EntryAt(pf.out.val, pf.path).content
                = Patched(EntryAt(pf.base, pf.path).content, pf.hunk)

\* C27 witness: a hunk that removes lines was applied in the middle of a
\* blob in a directory, leaving lines before and after it.
C27_Witness ==
    /\ Applied /\ pf.out.some
    /\ Len(pf.path) = 2
    /\ anchors(pf.hunk)[1] = 1
    /\ Len(pf.hunk.removed.lines) = 1
    /\ pf.hunk.added.lines # <<>>
    /\ Len(LinesOf(EntryAt(pf.base, pf.path).content)) = 3
    /\ EntryAt(pf.out.val, pf.path).content # EntryAt(pf.base, pf.path).content

\* C27 witness of the short blob: fewer terminators are left than the hunk
\* removes, the last line having none, and nothing follows the added lines.
C27_ShortBlob ==
    /\ Applied /\ pf.out.some
    /\ LET content == EntryAt(pf.base, pf.path).content
       IN  /\ content # <<>>
           /\ content[Len(content)] # NL
           /\ Len(LinesOf(content)) = 2
           /\ anchors(pf.hunk)[1] = 1
           /\ Len(pf.hunk.removed.lines) = 2
           /\ EntryAt(pf.out.val, pf.path).content
                = Line(49) \o Concat(pf.hunk.added.lines)

\* C27 witness of the prefix cases: prev_removed is 0, and prev_removed is
\* past the last line.
C27_WholeBlobKept ==
    /\ Applied /\ pf.out.some
    /\ anchors(pf.hunk)[1] > Len(LinesOf(EntryAt(pf.base, pf.path).content))
    /\ EntryAt(pf.base, pf.path).content # <<>>
    /\ EntryAt(pf.out.val, pf.path).content
            = EntryAt(pf.base, pf.path).content \o Concat(pf.hunk.added.lines)

C27_EmptyPrefix ==
    /\ Applied /\ pf.out.some
    /\ anchors(pf.hunk)[1] = 0
    /\ pf.hunk.removed.lines # <<>>
    /\ EntryAt(pf.base, pf.path).content # <<>>

\* An entry of the wrong kind, or no entry, is an error.
C27_Errors ==
    Applied /\ pf.path \in { << "f2", "f1" >>, << "f3" >> } => ~pf.out.some

Anchored == pf.op = "anchored"

\* The tuple of the four cases, r and a being the starts of the two sides.
AnchorTable(h) ==
    LET r == h.removed.start
        a == h.added.start
        nr == Len(h.removed.lines)
        na == Len(h.added.lines)
    IN  CASE nr = 0 /\ na = 0 -> << 0, 1, 0, 1 >>
          [] nr > 0 /\ na = 0 -> << r - 1, r + nr, r - 1, r >>
          [] nr = 0 /\ na > 0 -> << a - 1, a, a - 1, a + na >>
          [] nr > 0 /\ na > 0 -> << r - 1, r + nr, a - 1, a + na >>

\* No subtraction of anchors went below zero (the line numbers are usize: a
\* result below zero is a panic or a wrapped value, as the build decides).
NoUnderflow(t) == \A i \in 1..4 : t[i] >= 0

\* C28: anchors is defined for every hunk, without underflow, returns the
\* tuple of the four cases, and Hunk::anchors returns the same tuple.
C28_AnchorsTotal ==
    Anchored =>
        /\ NoUnderflow(pf.out)
        /\ pf.out = AnchorTable(pf.hunk)
        /\ pf.owned = pf.out

\* The sides of the hunk that have lines start at line 1 or later.
SidesStartAtLines(h) ==
    /\ h.removed.lines # <<>> => h.removed.start >= 1
    /\ h.added.lines # <<>> => h.added.start >= 1

\* C28, without totality: the tuple is the one of the four cases and the two
\* copies agree for every hunk; there is no underflow when the sides that
\* have lines start at line 1 or later.
C28_AnchorsOfLines ==
    Anchored =>
        /\ pf.out = AnchorTable(pf.hunk)
        /\ pf.owned = pf.out
        /\ SidesStartAtLines(pf.hunk) => NoUnderflow(pf.out)

\* C28 witnesses: the four cases were computed.
C28_Witness ==
    /\ Anchored
    /\ pf.hunk.removed.lines # <<>> /\ pf.hunk.added.lines # <<>>
    /\ pf.hunk.removed.start # pf.hunk.added.start
    /\ pf.out = << pf.hunk.removed.start - 1, pf.hunk.removed.start + Len(pf.hunk.removed.lines),
                   pf.hunk.added.start - 1, pf.hunk.added.start + Len(pf.hunk.added.lines) >>

C28_EmptyHunk == Anchored /\ pf.hunk = EmptyHunk /\ pf.out = << 0, 1, 0, 1 >>

====
